---- MODULE Spec2Model ----
(***************************************************************************)
(* Data layer of the weight-calculator workout tracker: the id generator,  *)
(* the record normalizer and validator, the localStorage backend with its  *)
(* user-scoped keys, the import/export merge and the service factory.      *)
(*                                                                         *)
(* JavaScript values are tagged records, so that `||`, Number(), typeof    *)
(* and === are computed as the engine computes them.  An object is a       *)
(* function from field names to values; a field that is absent reads as    *)
(* undefined.  An array is a sequence.                                     *)
(***************************************************************************)
EXTENDS Integers, Sequences, FiniteSets, TLC

VARIABLES
    localStorage,   \* the browser store: scoped key -> JSON text (a partial function)
    service,        \* the LocalStorageService instance: [userId, isAvailable]
    factory,        \* the DataServiceFactory: [currentService, serviceType, currentUserId]
    now,            \* the clock read by Date.now() / new Date()
    ret,            \* the outcome of the last completed call: [op, arg, err, val, failed]
    tasks,          \* the calls in flight, each suspended at an await: a sequence of frames
    calls           \* how many calls the session has issued

vars == <<localStorage, service, factory, now, ret, tasks, calls>>

---------------------------------------------------------------------------
(* JavaScript values *)

Undefined == [t |-> "undefined"]
Null == [t |-> "null"]
NaN == [t |-> "number", nan |-> TRUE]
Num(n) == [t |-> "number", n |-> n]
Str(s) == [t |-> "string", s |-> s]
Bool(b) == [t |-> "boolean", b |-> b]
\* the text of new Date(ms).toISOString(): a non-empty string
Iso(ms) == [t |-> "string", iso |-> ms]
Arr(a) == [t |-> "array", a |-> a]
Obj(o) == [t |-> "object", o |-> o]

TypeOf(v) == IF v.t \in {"null", "array"} THEN "object" ELSE v.t

IsNaN(v) == v.t = "number" /\ "nan" \in DOMAIN v

\* ToBoolean: what `!v`, `v || d` and `if (v)` test
Truthy(v) ==
    CASE v.t = "undefined" -> FALSE
      [] v.t = "null" -> FALSE
      [] v.t = "number" -> ~IsNaN(v) /\ v.n # 0
      [] v.t = "string" -> ("s" \in DOMAIN v => v.s # "")
      [] v.t = "boolean" -> v.b
      [] OTHER -> TRUE

\* a || b
OrElse(a, b) == IF Truthy(a) THEN a ELSE b

\* the decimal strings the inputs use, with the number each one reads as
NumericStrings == [s \in {"100", "3", "0", "-5"} |->
    CASE s = "100" -> 100 [] s = "3" -> 3 [] s = "0" -> 0 [] OTHER -> 0 - 5]

\* Number(v)
ToNumber(v) ==
    CASE v.t = "number" -> v
      [] v.t = "undefined" -> NaN
      [] v.t = "null" -> Num(0)
      [] v.t = "boolean" -> Num(IF v.b THEN 1 ELSE 0)
      [] v.t = "string" ->
            IF "s" \in DOMAIN v
            THEN IF v.s = "" THEN Num(0)
                 ELSE IF v.s \in DOMAIN NumericStrings THEN Num(NumericStrings[v.s])
                 ELSE NaN
            ELSE NaN
      [] OTHER -> NaN

\* v <= 0 on a value whose typeof is "number" (NaN <= 0 is false)
LeqZero(v) == ~IsNaN(v) /\ v.n <= 0

\* o[f]; an absent property reads as undefined
Get(o, f) == IF f \in DOMAIN o THEN o[f] ELSE Undefined

\* { ...a, ...b }
Spread(a, b) ==
    [f \in DOMAIN a \cup DOMAIN b |-> IF f \in DOMAIN b THEN b[f] ELSE a[f]]

\* { ...o, f: v }
With(o, f, v) == [g \in DOMAIN o \cup {f} |-> IF g = f THEN v ELSE o[g]]

EmptyObject == [f \in {} |-> Undefined]

\* JSON.parse(JSON.stringify(o)) on an object: a property holding undefined is
\* dropped and NaN is written as null
JSONRoundTrip(o) ==
    [f \in {g \in DOMAIN o : o[g] # Undefined} |-> IF IsNaN(o[f]) THEN Null ELSE o[f]]

---------------------------------------------------------------------------
(* Dates.  The clock counts days: new Date().toISOString() is Iso(now) and  *)
(* its date part, .split('T')[0], is DateStr(now).                          *)

DateStr(day) == [t |-> "string", day |-> day]

\* new Date(v).getTime(): NaN for anything that is not a date text
DateTime(v) ==
    IF v.t = "string" /\ "day" \in DOMAIN v THEN Num(v.day)
    ELSE IF v.t = "string" /\ "iso" \in DOMAIN v THEN Num(v.iso)
    ELSE NaN

---------------------------------------------------------------------------
(* utils/idGenerator.js *)

\* Id texts are kept by the pattern they match and a serial number:
\*   timestamp_hex     `${timestamp}_${randomHex}`, /^\d{13}_[a-f0-9]{6,}$/
\*   timestamp_us_hex  `${timestamp}_${microseconds}_${randomHex}`, which matches
\*                     none of the patterns of isValidWorkoutId
\*   uuid              /^[0-9a-f]{8}-[0-9a-f]{4}-4[0-9a-f]{3}-[89ab][0-9a-f]{3}-[0-9a-f]{12}$/i
\*   numeric           /^\d+$/
\* Any other text is a Str.
IdText(shape, n) == [t |-> "string", id |-> shape, n |-> n]
TimestampHexId(n) == IdText("timestamp_hex", n)
WidenedId(n) == IdText("timestamp_us_hex", n)
UuidId(n) == IdText("uuid", n)
NumericId(n) == IdText("numeric", n)

IdShape(id) == IF id.t = "string" /\ "id" \in DOMAIN id THEN id.id ELSE "other"

maxAttempts == 100
widenAfter == 10

\* The draws of one call, as the environment supplies them.  Attempt k reads
\* Date.now() and Math.random() as the timestamp_hex text number
\* first + (k - 1) * step, modulo span (step 0: a clock and a generator that
\* stand still), the widened candidate as number wide, generateUUID() as
\* number uuid.
generateUniqueId(e, k) == TimestampHexId(((e.first + (k - 1) * e.step) % e.span) + 1)

\* the iteration that starts with attempts = k - 1 returns: its candidate is
\* free, or attempts has passed widenAfter and the widened candidate is free
ReturnsAt(existingIds, e, k) ==
    \/ generateUniqueId(e, k) \notin existingIds
    \/ k > widenAfter /\ WidenedId(e.wide) \notin existingIds

\* the while loop from attempts on: the first iteration that returns decides,
\* and generateUUID() is returned as it is when none does
GenerateLoop(existingIds, e, attempts) ==
    IF \E k \in (attempts + 1)..maxAttempts : ReturnsAt(existingIds, e, k)
    THEN LET k == CHOOSE k \in (attempts + 1)..maxAttempts :
                      /\ ReturnsAt(existingIds, e, k)
                      /\ \A j \in (attempts + 1)..(k - 1) : ~ReturnsAt(existingIds, e, j)
         IN  IF generateUniqueId(e, k) \notin existingIds THEN generateUniqueId(e, k)
             ELSE WidenedId(e.wide)
    ELSE UuidId(e.uuid)

generateWorkoutId(existingIds, e) == GenerateLoop(existingIds, e, 0)

IsNumericText(id) == IdShape(id) = "numeric"

isValidWorkoutId(id) ==
    /\ id.t = "string"
    /\ Truthy(id)
    /\ IdShape(id) \in {"timestamp_hex", "uuid", "numeric"}

upgradeLegacyId(oldId, existingIds, e) ==
    IF isValidWorkoutId(oldId) /\ ~IsNumericText(oldId) THEN oldId
    ELSE generateWorkoutId(existingIds, e)

---------------------------------------------------------------------------
(* services/dataService.js *)

DATA_SCHEMA_VERSION == Str("1.0.0")

WORKOUT_HISTORY == "weightCalculator_workoutHistory"
USER_PREFERENCES == "weightCalculator_preferences"
APP_SETTINGS == "weightCalculator_settings"
DATA_VERSION == "weightCalculator_dataVersion"
STORAGE_KEYS == {WORKOUT_HISTORY, USER_PREFERENCES, APP_SETTINGS, DATA_VERSION}

DEFAULT_PREFERENCES ==
    [unit |-> Str("lbs"), theme |-> Str("light"),
     defaultBarbell |-> Obj([weight |-> Num(45), label |-> Str("Olympic Barbell (45 lbs)")]),
     autoSave |-> Bool(TRUE), showNotifications |-> Bool(TRUE)]

createDefaultSettings(ms) ==
    [dataVersion |-> DATA_SCHEMA_VERSION, lastBackup |-> Null,
     totalWorkouts |-> Num(0), firstUse |-> Iso(ms)]

DEFAULT_SETTINGS ==
    [dataVersion |-> DATA_SCHEMA_VERSION, lastBackup |-> Null,
     totalWorkouts |-> Num(0), firstUse |-> Null]

RequiredWorkoutFields ==
    {"id", "date", "exercise", "targetWeight", "actualWeight", "unit", "sets", "reps"}

\* Variant of ValidateWorkout that accepts every record; C10 must fail on it.
ValidateWorkoutLax(workout) == "ok"

\* DataValidators.workout: "ok", or the message of the error it throws
ValidateWorkout(workout) ==
    IF \E f \in RequiredWorkoutFields : Get(workout, f) \in {Undefined, Null}
        THEN "Missing required workout fields"
    ELSE IF TypeOf(workout.targetWeight) # "number" \/ LeqZero(workout.targetWeight)
        THEN "Target weight must be a positive number"
    ELSE IF TypeOf(workout.actualWeight) # "number" \/ LeqZero(workout.actualWeight)
        THEN "Actual weight must be a positive number"
    ELSE IF workout.unit \notin {Str("lbs"), Str("kg")}
        THEN "Unit must be either lbs or kg"
    ELSE IF TypeOf(workout.sets) # "number" \/ LeqZero(workout.sets)
        THEN "Sets must be a positive number"
    ELSE IF TypeOf(workout.reps) # "number" \/ LeqZero(workout.reps)
        THEN "Reps must be a positive number"
    ELSE "ok"

\* DataValidators.preferences
ValidatePreferences(preferences) ==
    IF Truthy(Get(preferences, "unit")) /\ Get(preferences, "unit") \notin {Str("lbs"), Str("kg")}
        THEN "Unit preference must be either lbs or kg"
    ELSE IF Truthy(Get(preferences, "theme"))
            /\ Get(preferences, "theme") \notin {Str("light"), Str("dark")}
        THEN "Theme preference must be either light or dark"
    ELSE "ok"

\* Variant of normalizeWorkout that fills in 1 for a weight that reads as no
\* number or as 0; C11 must fail on it.
normalizeWorkoutLenient(workout, existingIds, e, ms) ==
    LET workoutId == Get(workout, "id") IN
    [id |-> IF ~Truthy(workoutId) \/ ~isValidWorkoutId(workoutId)
                THEN generateWorkoutId(existingIds, e)
            ELSE IF IsNumericText(workoutId)
                THEN upgradeLegacyId(workoutId, existingIds, e)
            ELSE workoutId,
     date |-> OrElse(Get(workout, "date"), DateStr(ms)),
     exercise |-> OrElse(Get(workout, "exercise"), Str("")),
     targetWeight |-> OrElse(ToNumber(Get(workout, "targetWeight")), Num(1)),
     actualWeight |-> OrElse(ToNumber(Get(workout, "actualWeight")), Num(1)),
     unit |-> OrElse(Get(workout, "unit"), Str("lbs")),
     barbell |-> OrElse(Get(workout, "barbell"), Str("Olympic Barbell (45 lbs)")),
     sets |-> OrElse(ToNumber(Get(workout, "sets")), Num(1)),
     reps |-> OrElse(ToNumber(Get(workout, "reps")), Num(1)),
     completed |-> Bool(Truthy(Get(workout, "completed"))),
     notes |-> OrElse(Get(workout, "notes"), Str("")),
     createdAt |-> OrElse(Get(workout, "createdAt"), Iso(ms)),
     updatedAt |-> Iso(ms)]

\* DataTransformers.normalizeWorkout, with the id helpers of utils/idGenerator.js
normalizeWorkout(workout, existingIds, e, ms) ==
    LET workoutId == Get(workout, "id") IN
    [id |-> IF ~Truthy(workoutId) \/ ~isValidWorkoutId(workoutId)
                THEN generateWorkoutId(existingIds, e)
            ELSE IF IsNumericText(workoutId)
                THEN upgradeLegacyId(workoutId, existingIds, e)
            ELSE workoutId,
     date |-> OrElse(Get(workout, "date"), DateStr(ms)),
     exercise |-> OrElse(Get(workout, "exercise"), Str("")),
     targetWeight |-> OrElse(ToNumber(Get(workout, "targetWeight")), Num(0)),
     actualWeight |-> OrElse(ToNumber(Get(workout, "actualWeight")), Num(0)),
     unit |-> OrElse(Get(workout, "unit"), Str("lbs")),
     barbell |-> OrElse(Get(workout, "barbell"), Str("Olympic Barbell (45 lbs)")),
     sets |-> OrElse(ToNumber(Get(workout, "sets")), Num(1)),
     reps |-> OrElse(ToNumber(Get(workout, "reps")), Num(1)),
     completed |-> Bool(Truthy(Get(workout, "completed"))),
     notes |-> OrElse(Get(workout, "notes"), Str("")),
     createdAt |-> OrElse(Get(workout, "createdAt"), Iso(ms)),
     updatedAt |-> Iso(ms)]

---------------------------------------------------------------------------
(* services/localStorageService.js: the low-level accessors.                *)
(* A call that can throw yields [ls, err, failed, val]: the store after it, *)
(* "none" or the message of the error thrown, the key whose                 *)
(* localStorage.setItem threw with the name of what it threw (NoFault when  *)
(* none did), and the value returned.                                       *)

\* JSON.stringify of the values the service writes: an array of objects, an
\* object, or a primitive.  The stored text is represented by what
\* JSON.parse reads back from it.
JSONStringify(value) ==
    CASE value.t = "array" -> Arr([i \in 1..Len(value.a) |-> JSONRoundTrip(value.a[i])])
      [] value.t = "object" -> Obj(JSONRoundTrip(value.o))
      [] value.t = "undefined" -> Undefined
      [] IsNaN(value) -> Null
      [] OTHER -> value

\* Variant of _getUserScopedKey that ignores the user; C2 must fail on it.
_getUserScopedKeyUnscoped(svc, key) == <<key>>

_getUserScopedKey(svc, key) ==
    IF ~Truthy(svc.userId) THEN <<key>> ELSE <<key, "_user_", svc.userId.s>>

_getItem(ls, svc, key, defaultValue) ==
    IF ~svc.isAvailable THEN defaultValue
    ELSE IF _getUserScopedKey(svc, key) \in DOMAIN ls
         THEN ls[_getUserScopedKey(svc, key)]
         ELSE defaultValue

NoFault == [key |-> "", name |-> ""]
Fault(key, name) == [key |-> key, name |-> name]

Done(ls, val) == [ls |-> ls, err |-> "none", failed |-> NoFault, val |-> val]
Throw(ls, err, failed) == [ls |-> ls, err |-> err, failed |-> failed, val |-> Undefined]

\* `await r; return val`: an error of r goes on to the caller
Returning(r, val) == IF r.err # "none" THEN r ELSE Done(r.ls, val)

\* try { await r } catch (error) { console.warn(...) } on the store ls: the
\* error is logged, the store is as r left it
Caught(ls, r) ==
    IF r.err # "none" THEN [Done(ls, Undefined) EXCEPT !.failed = r.failed]
    ELSE Done(r.ls, Undefined)

\* Variant of _setItem whose failing write has stored the value before it
\* throws; C6 must fail on it.
_setItemTorn(ls, svc, key, value, fail) ==
    IF ~svc.isAvailable THEN Throw(ls, "localStorage is not available", NoFault)
    ELSE IF fail[key] # "none"
        THEN Throw([k \in DOMAIN ls \cup {_getUserScopedKey(svc, key)} |->
                       IF k = _getUserScopedKey(svc, key) THEN JSONStringify(value) ELSE ls[k]],
                   IF fail[key] = "QuotaExceededError" THEN "Storage quota exceeded"
                   ELSE fail[key],
                   Fault(key, fail[key]))
    ELSE Done([k \in DOMAIN ls \cup {_getUserScopedKey(svc, key)} |->
                  IF k = _getUserScopedKey(svc, key) THEN JSONStringify(value) ELSE ls[k]],
              Bool(TRUE))

\* fail[key] is what localStorage.setItem does for this key during the call:
\* "none", or the name of the exception it throws.
_setItem(ls, svc, key, value, fail) ==
    IF ~svc.isAvailable THEN Throw(ls, "localStorage is not available", NoFault)
    ELSE IF fail[key] = "QuotaExceededError"
        THEN Throw(ls, "Storage quota exceeded", Fault(key, fail[key]))
    ELSE IF fail[key] # "none" THEN Throw(ls, fail[key], Fault(key, fail[key]))
    ELSE Done([k \in DOMAIN ls \cup {_getUserScopedKey(svc, key)} |->
                  IF k = _getUserScopedKey(svc, key) THEN JSONStringify(value) ELSE ls[k]],
              Bool(TRUE))

_removeItem(ls, svc, key) ==
    IF ~svc.isAvailable THEN ls
    ELSE [k \in DOMAIN ls \ {_getUserScopedKey(svc, key)} |-> ls[k]]

---------------------------------------------------------------------------
(* LocalStorageService: workout history *)

RECURSIVE NormalizeValid(_, _, _, _)
\* the loop of getWorkoutHistory: normalize, validate, keep or skip
NormalizeValid(workouts, existingIds, e, ms) ==
    IF workouts = <<>> THEN <<>>
    ELSE LET normalized == normalizeWorkout(Head(workouts), existingIds, e, ms) IN
         IF ValidateWorkout(normalized) = "ok"
         THEN <<normalized>> \o
              NormalizeValid(Tail(workouts), existingIds \cup {normalized.id}, e, ms)
         ELSE NormalizeValid(Tail(workouts), existingIds, e, ms)

\* workouts.map(w => w.id).filter(Boolean)
TruthyIds(workouts) ==
    {Get(workouts[i], "id") : i \in {j \in 1..Len(workouts) : Truthy(Get(workouts[j], "id"))}}

IdsOf(workouts) == {workouts[i].id : i \in 1..Len(workouts)}

\* getWorkoutHistory: workouts.map is not a function unless the stored value is an array
getWorkoutHistory(ls, svc, e, ms) ==
    LET workouts == _getItem(ls, svc, WORKOUT_HISTORY, Arr(<<>>)) IN
    IF workouts.t # "array" THEN Throw(ls, "TypeError", NoFault)
    ELSE Done(ls, Arr(NormalizeValid(workouts.a, TruthyIds(workouts.a), e, ms)))

\* workouts.findIndex(w => w.id === id): 0 when there is none
FindIndex(workouts, id) ==
    IF \E i \in 1..Len(workouts) : workouts[i].id = id
    THEN CHOOSE i \in 1..Len(workouts) :
            workouts[i].id = id /\ \A j \in 1..(i - 1) : workouts[j].id # id
    ELSE 0

\* this._setItem(key, value); return value
SetAndReturn(ls, svc, key, value, fail) ==
    Returning(_setItem(ls, svc, key, Obj(value), fail), Obj(value))

\* { ...DEFAULT_SETTINGS, ...currentSettings, ...settings, firstUse: ... }
\* Variant of MergeSettings in which the firstUse of the argument wins over
\* the stored one; C26 must fail on it.
MergeSettingsArgumentFirst(currentSettings, settings, ms) ==
    LET current == IF currentSettings.t = "object" THEN currentSettings.o ELSE EmptyObject IN
    With(Spread(Spread(DEFAULT_SETTINGS, current), settings), "firstUse",
         OrElse(OrElse(Get(settings, "firstUse"), Get(current, "firstUse")), Iso(ms)))

MergeSettings(currentSettings, settings, ms) ==
    LET current == IF currentSettings.t = "object" THEN currentSettings.o ELSE EmptyObject IN
    With(Spread(Spread(DEFAULT_SETTINGS, current), settings), "firstUse",
         OrElse(OrElse(Get(current, "firstUse"), Get(settings, "firstUse")), Iso(ms)))

saveSettings(ls, svc, settings, ms, fail) ==
    SetAndReturn(ls, svc, APP_SETTINGS,
                 MergeSettings(_getItem(ls, svc, APP_SETTINGS, Null), settings, ms), fail)

\* getSettings: creates and stores the defaults when there are none
getSettings(ls, svc, ms, fail) ==
    LET settings == _getItem(ls, svc, APP_SETTINGS, Null) IN
    IF ~Truthy(settings)
    THEN Returning(saveSettings(ls, svc, createDefaultSettings(ms), ms, fail),
                   Obj(createDefaultSettings(ms)))
    ELSE Done(ls, Obj(Spread(DEFAULT_SETTINGS, settings.o)))

\* settings.totalWorkouts = n; await this.saveSettings(settings), settings
\* being what getSettings returned
SetTotalWorkouts(g, svc, n, ms, fail) ==
    IF g.err # "none" THEN g
    ELSE saveSettings(g.ls, svc, With(g.val.o, "totalWorkouts", Num(n)), ms, fail)

\* the tail shared by saveWorkout, deleteWorkout and clearWorkoutHistory:
\*   settings = await getSettings(); settings.totalWorkouts = n; await saveSettings(settings)
UpdateTotalWorkouts(ls, svc, n, ms, fail) ==
    SetTotalWorkouts(getSettings(ls, svc, ms, fail), svc, n, ms, fail)

\* Variant of saveWorkoutWrite that stores the new record in place of the
\* list read; C31 must fail on it.
saveWorkoutWriteAlone(ls, svc, workouts, workout, e, ms, fail) ==
    LET normalized == normalizeWorkout(workout, IdsOf(workouts), e, ms)
        w == _setItem(ls, svc, WORKOUT_HISTORY, Arr(<<normalized>>), fail)
    IN  IF ValidateWorkout(normalized) # "ok" THEN Throw(ls, ValidateWorkout(normalized), NoFault)
        ELSE IF w.err # "none" THEN w
        ELSE Done(w.ls, Arr(<<normalized>>))

\* Variant of saveWorkoutWrite that appends a new record instead of putting it
\* in front; C5 must fail on it.
saveWorkoutWriteAppend(ls, svc, workouts, workout, e, ms, fail) ==
    LET normalized == normalizeWorkout(workout, IdsOf(workouts), e, ms)
        existingIndex == FindIndex(workouts, normalized.id)
        updated == IF existingIndex > 0
                   THEN [workouts EXCEPT ![existingIndex] = normalized]
                   ELSE workouts \o <<normalized>>
        w == _setItem(ls, svc, WORKOUT_HISTORY, Arr(updated), fail)
    IN  IF ValidateWorkout(normalized) # "ok" THEN Throw(ls, ValidateWorkout(normalized), NoFault)
        ELSE IF w.err # "none" THEN w
        ELSE Done(w.ls, Arr(updated))

\* saveWorkout after `await this.getWorkoutHistory()` has returned workouts, up to
\* and including the write of the history
saveWorkoutWrite(ls, svc, workouts, workout, e, ms, fail) ==
    LET normalized == normalizeWorkout(workout, IdsOf(workouts), e, ms)
        existingIndex == FindIndex(workouts, normalized.id)
        updated == IF existingIndex > 0
                   THEN [workouts EXCEPT ![existingIndex] = normalized]
                   ELSE <<normalized>> \o workouts
        w == _setItem(ls, svc, WORKOUT_HISTORY, Arr(updated), fail)
    IN  IF ValidateWorkout(normalized) # "ok" THEN Throw(ls, ValidateWorkout(normalized), NoFault)
        ELSE IF w.err # "none" THEN w
        ELSE Done(w.ls, Arr(updated))

\* saveWorkout after the write w of the history: the count, then `return normalized`
saveWorkoutCount(w, svc, id, ms, fail) ==
    IF w.err # "none" THEN w
    ELSE Returning(UpdateTotalWorkouts(w.ls, svc, Len(w.val.a), ms, fail), id)

\* saveWorkout once getWorkoutHistory has returned h
saveWorkoutOver(ls, svc, h, workout, e, ms, fail) ==
    IF h.err # "none" THEN h
    ELSE saveWorkoutCount(saveWorkoutWrite(ls, svc, h.val.a, workout, e, ms, fail), svc,
                          normalizeWorkout(workout, IdsOf(h.val.a), e, ms).id, ms, fail)

saveWorkout(ls, svc, workout, e, ms, fail) ==
    saveWorkoutOver(ls, svc, getWorkoutHistory(ls, svc, e, ms), workout, e, ms, fail)

\* Variant of updateWorkout that writes the patched record before it
\* validates it; C33 must fail on it.
updateWorkoutWriteFirst(ls, svc, workoutId, updates, e, ms, fail) ==
    LET h == getWorkoutHistory(ls, svc, e, ms) IN
    IF h.err # "none" THEN h
    ELSE LET workouts == h.val.a
             workoutIndex == FindIndex(workouts, workoutId)
         IN  IF workoutIndex = 0 THEN Throw(ls, "Workout not found", NoFault)
             ELSE LET updatedWorkout ==
                          With(Spread(workouts[workoutIndex], updates), "updatedAt", Iso(ms))
                      normalized == normalizeWorkout(updatedWorkout, {}, e, ms)
                      w == _setItem(ls, svc, WORKOUT_HISTORY,
                                    Arr([workouts EXCEPT ![workoutIndex] = normalized]), fail)
                  IN  IF w.err # "none" THEN w
                      ELSE IF ValidateWorkout(normalized) # "ok"
                          THEN Throw(w.ls, ValidateWorkout(normalized), NoFault)
                      ELSE Done(w.ls, normalized.id)

updateWorkout(ls, svc, workoutId, updates, e, ms, fail) ==
    LET h == getWorkoutHistory(ls, svc, e, ms) IN
    IF h.err # "none" THEN h
    ELSE LET workouts == h.val.a
             workoutIndex == FindIndex(workouts, workoutId)
         IN  IF workoutIndex = 0 THEN Throw(ls, "Workout not found", NoFault)
             ELSE LET updatedWorkout ==
                          With(Spread(workouts[workoutIndex], updates), "updatedAt", Iso(ms))
                      normalized == normalizeWorkout(updatedWorkout, {}, e, ms)
                      w == _setItem(ls, svc, WORKOUT_HISTORY,
                                    Arr([workouts EXCEPT ![workoutIndex] = normalized]), fail)
                  IN  IF ValidateWorkout(normalized) # "ok"
                          THEN Throw(ls, ValidateWorkout(normalized), NoFault)
                      ELSE IF w.err # "none" THEN w
                      ELSE Done(w.ls, normalized.id)

\* after the write w of a history of n records: the count, then `return true`
CountAndReturnTrue(w, svc, n, ms, fail) ==
    IF w.err # "none" THEN w
    ELSE Returning(UpdateTotalWorkouts(w.ls, svc, n, ms, fail), Bool(TRUE))

\* deleteWorkout once getWorkoutHistory has returned h
deleteWorkoutFrom(ls, svc, h, workoutId, ms, fail) ==
    IF h.err # "none" THEN h
    ELSE LET workouts == h.val.a
             Other(w) == w.id # workoutId
             filteredWorkouts == SelectSeq(workouts, Other)
         IN  IF Len(filteredWorkouts) = Len(workouts) THEN Throw(ls, "Workout not found", NoFault)
             ELSE CountAndReturnTrue(
                      _setItem(ls, svc, WORKOUT_HISTORY, Arr(filteredWorkouts), fail),
                      svc, Len(filteredWorkouts), ms, fail)

deleteWorkout(ls, svc, workoutId, e, ms, fail) ==
    deleteWorkoutFrom(ls, svc, getWorkoutHistory(ls, svc, e, ms), workoutId, ms, fail)

clearWorkoutHistory(ls, svc, ms, fail) ==
    CountAndReturnTrue(_setItem(ls, svc, WORKOUT_HISTORY, Arr(<<>>), fail), svc, 0, ms, fail)

---------------------------------------------------------------------------
(* LocalStorageService: preferences *)

getPreferences(ls, svc) ==
    LET preferences == _getItem(ls, svc, USER_PREFERENCES, Obj(DEFAULT_PREFERENCES)) IN
    IF ValidatePreferences(preferences.o) = "ok"
    THEN Obj(Spread(DEFAULT_PREFERENCES, preferences.o))
    ELSE Obj(DEFAULT_PREFERENCES)

\* Variant of savePreferences that merges over the stored preferences
\* instead of the defaults; C25 must fail on it.
savePreferencesOverStored(ls, svc, preferences, fail) ==
    LET merged == Spread(getPreferences(ls, svc).o, preferences) IN
    IF ValidatePreferences(merged) # "ok" THEN Throw(ls, ValidatePreferences(merged), NoFault)
    ELSE SetAndReturn(ls, svc, USER_PREFERENCES, merged, fail)

savePreferences(ls, svc, preferences, fail) ==
    LET merged == Spread(DEFAULT_PREFERENCES, preferences) IN
    IF ValidatePreferences(merged) # "ok" THEN Throw(ls, ValidatePreferences(merged), NoFault)
    ELSE SetAndReturn(ls, svc, USER_PREFERENCES, merged, fail)

---------------------------------------------------------------------------
(* LocalStorageService: export and import *)

\* normalizeWorkout reaches generateWorkoutId(existingIds) for this id
NeedsNewId(workout) ==
    \/ ~Truthy(Get(workout, "id"))
    \/ ~isValidWorkoutId(Get(workout, "id"))
    \/ IsNumericText(Get(workout, "id"))

\* new Set(...) as a value handed to normalizeWorkout
IdSet(S) == [t |-> "set", s |-> S]

\* DataTransformers.normalizeWorkout(workout, existingIds) as a call:
\* generateWorkoutId ends in existingIds.has(id), a TypeError unless
\* existingIds is a Set
normalizeWorkoutCall(workout, existingIds, e, ms) ==
    IF existingIds.t # "set"
    THEN IF NeedsNewId(workout) THEN [err |-> "TypeError", val |-> Undefined]
         ELSE [err |-> "none", val |-> Obj(normalizeWorkout(workout, {}, e, ms))]
    ELSE [err |-> "none", val |-> Obj(normalizeWorkout(workout, existingIds.s, e, ms))]

\* DataValidators.workout(DataTransformers.normalizeWorkout(workout, existingIds))
validateNormalized(workout, existingIds, e, ms) ==
    LET n == normalizeWorkoutCall(workout, existingIds, e, ms) IN
    IF n.err # "none" THEN n
    ELSE IF ValidateWorkout(n.val.o) # "ok" THEN [err |-> ValidateWorkout(n.val.o), val |-> n.val]
    ELSE [err |-> "none", val |-> n.val]

SetMin(S) == CHOOSE x \in S : \A y \in S : x <= y
SetMax(S) == CHOOSE x \in S : \A y \in S : y <= x

\* Math.min / Math.max over the dates' times: NaN as soon as one date is no date
DateRange(workouts) ==
    IF workouts = <<>> THEN Null
    ELSE IF \E i \in 1..Len(workouts) : IsNaN(DateTime(workouts[i].date))
         THEN Obj([earliest |-> NaN, latest |-> NaN])
         ELSE Obj([earliest |-> Num(SetMin({DateTime(workouts[i].date).n : i \in 1..Len(workouts)})),
                   latest |-> Num(SetMax({DateTime(workouts[i].date).n : i \in 1..Len(workouts)}))])

\* DataTransformers.prepareExportData.  workouts.map(DataTransformers.normalizeWorkout)
\* hands the element's index to normalizeWorkout as existingIds, so a record that
\* needs a new id ends in existingIds.has(id) on a number: a TypeError.
prepareExportData(ls, workouts, preferences, settings, e, ms) ==
    IF \E i \in 1..Len(workouts) : NeedsNewId(workouts[i]) THEN Throw(ls, "TypeError", NoFault)
    ELSE Done(ls, Obj(
        [version |-> DATA_SCHEMA_VERSION,
         exportDate |-> Iso(ms),
         workouts |-> Arr([i \in 1..Len(workouts) |-> normalizeWorkout(workouts[i], {}, e, ms)]),
         preferences |-> Obj(Spread(DEFAULT_PREFERENCES, preferences)),
         settings |-> Obj(Spread(DEFAULT_SETTINGS, settings)),
         metadata |-> Obj([totalWorkouts |-> Num(Len(workouts)),
                           dateRange |-> DateRange(workouts)])]))

\* exportData once Promise.all has settled: all three calls have run, the first
\* rejection is what is thrown
exportDataOf(h, p, s, e, ms) ==
    IF h.err # "none" THEN [h EXCEPT !.ls = s.ls]
    ELSE IF s.err # "none" THEN s
    ELSE prepareExportData(s.ls, h.val.a, p.o, s.val.o, e, ms)

\* Variant of exportData that exports the default preferences instead of the
\* stored ones; C9 must fail on it.
exportDataDefaults(ls, svc, e, ms, fail) ==
    exportDataOf(getWorkoutHistory(ls, svc, e, ms), Obj(DEFAULT_PREFERENCES),
                 getSettings(ls, svc, ms, fail), e, ms)

exportData(ls, svc, e, ms, fail) ==
    exportDataOf(getWorkoutHistory(ls, svc, e, ms), getPreferences(ls, svc),
                 getSettings(ls, svc, ms, fail), e, ms)

RECURSIVE ImportValidKeepDuplicates(_, _, _, _)
\* Variant of ImportValid that accepts a record whose id is already present;
\* C8 must fail on it.
ImportValidKeepDuplicates(workouts, existingIds, e, ms) ==
    IF workouts = <<>> THEN <<>>
    ELSE LET normalized == normalizeWorkout(Head(workouts), existingIds, e, ms) IN
         IF ValidateWorkout(normalized) # "ok"
         THEN ImportValidKeepDuplicates(Tail(workouts), existingIds, e, ms)
         ELSE <<normalized>> \o
              ImportValidKeepDuplicates(Tail(workouts), existingIds \cup {normalized.id}, e, ms)

RECURSIVE ImportValid(_, _, _, _)
\* the loop of importData over data.workouts: the records accepted, in order
ImportValid(workouts, existingIds, e, ms) ==
    IF workouts = <<>> THEN <<>>
    ELSE LET normalized == normalizeWorkout(Head(workouts), existingIds, e, ms) IN
         IF ValidateWorkout(normalized) # "ok" \/ normalized.id \in existingIds
         THEN ImportValid(Tail(workouts), existingIds, e, ms)
         ELSE <<normalized>> \o
              ImportValid(Tail(workouts), existingIds \cup {normalized.id}, e, ms)

\* new Date(b.date) - new Date(a.date), a NaN result counting as 0
CompareByDate(a, b) ==
    IF IsNaN(DateTime(a.date)) \/ IsNaN(DateTime(b.date)) THEN 0
    ELSE DateTime(b.date).n - DateTime(a.date).n

RECURSIVE SortByDate(_)
\* Array.prototype.sort with CompareByDate: stable, newest first
SortByDate(workouts) ==
    IF workouts = <<>> THEN <<>>
    ELSE LET sorted == SortByDate(SubSeq(workouts, 1, Len(workouts) - 1))
             x == workouts[Len(workouts)]
             k == Cardinality({i \in 1..Len(sorted) : CompareByDate(sorted[i], x) <= 0})
             \* sorted is ordered, so those k elements are its first k
         IN  SubSeq(sorted, 1, k) \o <<x>> \o SubSeq(sorted, k + 1, Len(sorted))

\* importData from `if (data.settings)` on: final and current are what
\* getWorkoutHistory and getSettings returned
importDataCount(svc, data, final, current, ms, fail) ==
    IF final.err # "none" THEN final
    ELSE IF current.err # "none" THEN current
    ELSE IF Truthy(Get(data, "settings"))
    THEN \* an error here is caught and logged
         [Caught(current.ls,
                 saveSettings(current.ls, svc,
                              With(data.settings.o, "totalWorkouts", Num(Len(final.val.a))),
                              ms, fail)) EXCEPT !.val = Bool(TRUE)]
    ELSE Returning(saveSettings(current.ls, svc,
                                With(current.val.o, "totalWorkouts", Num(Len(final.val.a))),
                                ms, fail),
                   Bool(TRUE))

\* importData from `const finalWorkouts = await this.getWorkoutHistory()` on
importDataSettings(ls, svc, data, e, ms, fail) ==
    importDataCount(svc, data, getWorkoutHistory(ls, svc, e, ms),
                    getSettings(ls, svc, ms, fail), ms, fail)

\* a call that went on after the caught error of p: the result r of the rest,
\* recording the failed write of p unless a later write failed too
AfterCaught(p, r) == IF r.failed = NoFault THEN [r EXCEPT !.failed = p.failed] ELSE r

\* importData after savePreferences has settled as p, its error caught and logged
importDataSaved(p, svc, data, e, ms, fail) ==
    AfterCaught(p, importDataSettings(p.ls, svc, data, e, ms, fail))

\* importData from `if (data.preferences)` on
importDataPreferences(ls, svc, data, e, ms, fail) ==
    IF Truthy(Get(data, "preferences"))
    THEN importDataSaved(Caught(ls, savePreferences(ls, svc, data.preferences.o, fail)),
                         svc, data, e, ms, fail)
    ELSE importDataSettings(ls, svc, data, e, ms, fail)

\* importData after the write w of the merged history
importDataWritten(w, svc, data, e, ms, fail) ==
    IF w.err # "none" THEN w ELSE importDataPreferences(w.ls, svc, data, e, ms, fail)

\* importData once getWorkoutHistory has returned h: the loop, the merge, the write
importDataMerge(ls, svc, data, h, e, ms, fail) ==
    IF h.err # "none" THEN h
    ELSE importDataWritten(
             _setItem(ls, svc, WORKOUT_HISTORY,
                      Arr(SortByDate(h.val.a \o
                                     ImportValid(data.workouts.a, IdsOf(h.val.a), e, ms))),
                      fail),
             svc, data, e, ms, fail)

importData(ls, svc, data, e, ms, fail) ==
    IF ~Truthy(data) \/ TypeOf(data) # "object" THEN Throw(ls, "Invalid import data format", NoFault)
    ELSE IF ~Truthy(Get(data.o, "version"))
        THEN Throw(ls, "Import data missing version information", NoFault)
    ELSE IF Truthy(Get(data.o, "workouts")) /\ Get(data.o, "workouts").t = "array"
    THEN importDataMerge(ls, svc, data.o, getWorkoutHistory(ls, svc, e, ms), e, ms, fail)
    ELSE importDataPreferences(ls, svc, data.o, e, ms, fail)

RECURSIVE RemoveAll(_, _, _)
RemoveAll(ls, svc, keys) ==
    IF keys = {} THEN ls
    ELSE LET key == CHOOSE k \in keys : TRUE IN
         RemoveAll(_removeItem(ls, svc, key), svc, keys \ {key})

clearAllData(ls, svc) == Done(RemoveAll(ls, svc, STORAGE_KEYS), Bool(TRUE))

---------------------------------------------------------------------------
(* LocalStorageService: versioning, health, legacy data *)

getDataVersion(ls, svc) == _getItem(ls, svc, DATA_VERSION, DATA_SCHEMA_VERSION)

migrateData(ls, svc, fromVersion, toVersion, fail) ==
    _setItem(ls, svc, DATA_VERSION, toVersion, fail)

HEALTH_KEY == "health_check_test"

\* isHealthy: write, read back and remove a sentinel; any error reads as false
isHealthy(ls, svc, ms, fail) ==
    LET w == _setItem(ls, svc, HEALTH_KEY, Obj([timestamp |-> Num(ms)]), fail) IN
    IF w.err # "none" THEN [Done(ls, Bool(FALSE)) EXCEPT !.failed = w.failed]
    ELSE LET retrieved == _getItem(w.ls, svc, HEALTH_KEY, Null) IN
         Done(_removeItem(w.ls, svc, HEALTH_KEY),
              Bool(Truthy(retrieved) /\ retrieved.o.timestamp = Num(ms)))

LegacyKeys == <<WORKOUT_HISTORY, USER_PREFERENCES, APP_SETTINGS>>

\* localStorage.getItem(key) is a non-empty text
HasItem(ls, key) == <<key>> \in DOMAIN ls

RECURSIVE MigrateKeysCopyOnly(_, _, _, _, _, _)
\* Variant of MigrateKeys that copies each value and leaves the unscoped key;
\* C7 must fail on it.
MigrateKeysCopyOnly(ls, svc, keys, userId, fail, migrated) ==
    IF keys = <<>> THEN Done(ls, Bool(migrated))
    ELSE IF ~HasItem(ls, Head(keys))
         THEN MigrateKeysCopyOnly(ls, svc, Tail(keys), userId, fail, migrated)
         ELSE LET value == _getItem(ls, [svc EXCEPT !.userId = Null], Head(keys), Null)
                  w == _setItem(ls, [svc EXCEPT !.userId = userId], Head(keys), value, fail)
              IN  IF w.err # "none" THEN [Done(ls, Bool(FALSE)) EXCEPT !.failed = w.failed]
                  ELSE MigrateKeysCopyOnly(w.ls, svc, Tail(keys), userId, fail, TRUE)

RECURSIVE MigrateKeys(_, _, _, _, _, _)
\* the three blocks of migrateLegacyDataToUser, one per key: read the unscoped
\* value (userId = null), write it under userId, remove the unscoped key
MigrateKeys(ls, svc, keys, userId, fail, migrated) ==
    IF keys = <<>> THEN Done(ls, Bool(migrated))
    ELSE IF ~HasItem(ls, Head(keys))
         THEN MigrateKeys(ls, svc, Tail(keys), userId, fail, migrated)
         ELSE LET value == _getItem(ls, [svc EXCEPT !.userId = Null], Head(keys), Null)
                  w == _setItem(ls, [svc EXCEPT !.userId = userId], Head(keys), value, fail)
              IN  IF w.err # "none" THEN [Done(ls, Bool(FALSE)) EXCEPT !.failed = w.failed]
                  ELSE MigrateKeys(_removeItem(w.ls, [svc EXCEPT !.userId = Null], Head(keys)),
                                   svc, Tail(keys), userId, fail, TRUE)

\* migrateLegacyDataToUser: [ls, val, failed, err], and the userId it leaves in
\* the service: originalUserId, or originalUserId || null after an error
migrateLegacyDataToUser(ls, svc, userId, fail) ==
    IF ~svc.isAvailable \/ ~Truthy(userId) THEN Done(ls, Bool(FALSE))
    ELSE MigrateKeys(ls, svc, LegacyKeys, userId, fail, FALSE)

migrateLegacyUserIdAfter(svc, r) ==
    IF r.failed # NoFault THEN OrElse(svc.userId, Null) ELSE svc.userId

\* what getAllUserData returns or throws once Promise.all has settled: h, p
\* and g are the outcomes of getWorkoutHistory, getPreferences and getSettings
getAllUserDataOf(h, p, g, targetUserId) ==
    IF h.err # "none" THEN [h EXCEPT !.ls = g.ls]
    ELSE IF g.err # "none" THEN g
    ELSE Done(g.ls, Obj([workouts |-> h.val, preferences |-> p, settings |-> g.val,
                         userId |-> targetUserId]))

hasLegacyData(ls, svc) ==
    svc.isAvailable /\ \E i \in 1..Len(LegacyKeys) : HasItem(ls, LegacyKeys[i])

---------------------------------------------------------------------------
(* services/dataServiceFactory.js *)

LOCAL_STORAGE == Str("localStorage")
INDEXED_DB == Str("indexedDB")
CLOUD_SYNC == Str("cloudSync")

NoService == [userId |-> Null, isAvailable |-> FALSE]

\* a constructor that drops the userId it is given
LocalStorageServiceUnscoped(userId, available) == [userId |-> Null, isAvailable |-> available]

\* new LocalStorageService(userId); available is what _checkAvailability finds
LocalStorageService(userId, available) == [userId |-> userId, isAvailable |-> available]

\* _checkAndMigrateData: an error of migrateData is caught and logged
_checkAndMigrateData(ls, svc, fail) ==
    IF getDataVersion(ls, svc) # DATA_SCHEMA_VERSION
    THEN LET m == migrateData(ls, svc, getDataVersion(ls, svc), DATA_SCHEMA_VERSION, fail) IN
         IF m.err # "none" THEN [Done(ls, Bool(FALSE)) EXCEPT !.failed = m.failed]
         ELSE Done(m.ls, Bool(TRUE))
    ELSE Done(ls, Bool(FALSE))

\* _createService: [err, svc]
_createService(backend, userId, available) ==
    IF backend = LOCAL_STORAGE
    THEN [err |-> "none", svc |-> LocalStorageService(userId, available)]
    ELSE IF backend = INDEXED_DB
    THEN [err |-> "IndexedDB service not yet implemented", svc |-> NoService]
    ELSE IF backend = CLOUD_SYNC
    THEN [err |-> "Cloud sync service not yet implemented", svc |-> NoService]
    ELSE [err |-> "Unknown storage backend", svc |-> NoService]

\* what migrateToBackend leaves: the outcome r of the call, and the
\* currentService and serviceType of the factory after it
Migrated(r, svc, serviceType) ==
    [ls |-> r.ls, err |-> r.err, failed |-> r.failed, val |-> r.val,
     service |-> svc, serviceType |-> serviceType]

\* the verification of migrateToBackend and the switch to the new service;
\* i is the outcome of newService.importData
migrateToBackendVerify(i, svc, serviceType, newService, newBackend, e, ms) ==
    IF i.err # "none" THEN Migrated(i, svc, serviceType)
    ELSE IF getWorkoutHistory(i.ls, newService, e, ms).err # "none"
    THEN Migrated(getWorkoutHistory(i.ls, newService, e, ms), svc, serviceType)
    ELSE IF getWorkoutHistory(i.ls, svc, e, ms).err # "none"
    THEN Migrated(getWorkoutHistory(i.ls, svc, e, ms), svc, serviceType)
    ELSE IF Len(getWorkoutHistory(i.ls, newService, e, ms).val.a) #
            Len(getWorkoutHistory(i.ls, svc, e, ms).val.a)
    THEN Migrated(Throw(i.ls, "Migration verification failed: workout count mismatch", NoFault),
                  svc, serviceType)
    ELSE Migrated(Done(i.ls, newBackend), newService, newBackend)

\* the try block of migrateToBackend after exportData, whose outcome is x;
\* c is the outcome of _createService(newBackend)
migrateToBackendFrom(x, c, svc, serviceType, newBackend, e, ms, fail) ==
    IF x.err # "none" THEN Migrated(x, svc, serviceType)
    ELSE IF c.err # "none" THEN Migrated(Throw(x.ls, c.err, NoFault), svc, serviceType)
    ELSE migrateToBackendVerify(importData(x.ls, c.svc, x.val, e, ms, fail),
                                svc, serviceType, c.svc, newBackend, e, ms)

\* a migrateToBackend that switches serviceType before the new service exists
migrateToBackendSwitchFirst(ls, svc, currentService, serviceType, newBackend, available, e, ms, fail) ==
    IF currentService = "null"
    THEN Migrated(Throw(ls, "No current service to migrate from", NoFault), svc, serviceType)
    ELSE IF serviceType = newBackend THEN Migrated(Done(ls, serviceType), svc, serviceType)
    ELSE migrateToBackendFrom(exportData(ls, svc, e, ms, fail),
                              _createService(newBackend, Null, available),
                              svc, newBackend, newBackend, e, ms, fail)

\* migrateToBackend; the value returned is the service, of which the outcome
\* keeps the type
migrateToBackend(ls, svc, currentService, serviceType, newBackend, available, e, ms, fail) ==
    IF currentService = "null"
    THEN Migrated(Throw(ls, "No current service to migrate from", NoFault), svc, serviceType)
    ELSE IF serviceType = newBackend THEN Migrated(Done(ls, serviceType), svc, serviceType)
    ELSE migrateToBackendFrom(exportData(ls, svc, e, ms, fail),
                              _createService(newBackend, Null, available),
                              svc, serviceType, newBackend, e, ms, fail)

---------------------------------------------------------------------------
(* Bounds of the model *)

MaxWorkouts == 3        \* records in one stored history
MaxTime == 1            \* clock ticks
MaxCalls == 3           \* calls issued in one session
MaxTasks == 1           \* calls suspended at an await at the same time
MaxRaw == 2             \* entries of a raw stored list

\* distinct timestamp_hex texts the generator can draw: one more than it can
\* need in one call
IdSpan == MaxWorkouts + 2

UserA == Str("user_1")
UserB == Str("user_2")
Users == {UserA, UserB}

NoFailure == [k \in STORAGE_KEYS \cup {HEALTH_KEY} |-> "none"]
FailingAt(key, name) == [NoFailure EXCEPT ![key] = name]

\* localStorage.setItem throwing one of names for one of keys, or not at all
Failures(keys, names) == {NoFailure} \cup {FailingAt(k, n) : k \in keys, n \in names}

\* Date.now() and Math.random() differ from attempt to attempt
Entropy == {[first |-> 0, step |-> 1, span |-> IdSpan, wide |-> 1, uuid |-> 1]}

\* an id issued in an earlier session: its timestamp is in the past, so no
\* draw of this session equals it
EarlierId(n) == TimestampHexId(0 - n)

ScopedKey(userId, key) == _getUserScopedKey([userId |-> userId], key)

StoredHistory(ls, userId) ==
    IF ScopedKey(userId, WORKOUT_HISTORY) \in DOMAIN ls
    THEN ls[ScopedKey(userId, WORKOUT_HISTORY)]
    ELSE Arr(<<>>)

StoredSettings(ls, userId) ==
    IF ScopedKey(userId, APP_SETTINGS) \in DOMAIN ls
    THEN ls[ScopedKey(userId, APP_SETTINGS)]
    ELSE Null

StoredPreferences(ls, userId) ==
    IF ScopedKey(userId, USER_PREFERENCES) \in DOMAIN ls
    THEN ls[ScopedKey(userId, USER_PREFERENCES)]
    ELSE Null

WithinBounds(ls) ==
    \A u \in Users \cup {Null} :
        StoredHistory(ls, u).t = "array" => Len(StoredHistory(ls, u).a) <= MaxWorkouts

---------------------------------------------------------------------------
(* Actions: one per call of the factory or of the service it hands out.     *)
(* ret is the outcome of the call: its name, its argument, "none" or the    *)
(* error raised to the caller, the value returned, and the key whose        *)
(* localStorage.setItem threw during the call.                              *)

Outcome(op, arg, r) == [op |-> op, arg |-> arg, err |-> r.err, val |-> r.val, failed |-> r.failed]

Ready == factory.currentService # "null"

\* a call of the service that runs to completion before the next call is issued
Call(op, arg, result) ==
    /\ Ready
    /\ tasks = <<>>
    /\ calls < MaxCalls
    /\ \E r \in {result} :
        /\ WithinBounds(r.ls)
        /\ localStorage' = r.ls
        /\ ret' = Outcome(op, arg, r)
    /\ calls' = calls + 1
    /\ UNCHANGED <<service, factory, now, tasks>>

\* DataServiceFactory.initialize, as App calls it: once, while no service exists
Initialize(preferredBackend, userId, available, fail) ==
    /\ ~Ready
    /\ LET backend == OrElse(preferredBackend, LOCAL_STORAGE) IN
       IF backend = LOCAL_STORAGE
       THEN LET svc == LocalStorageService(userId, available)
                h == isHealthy(localStorage, svc, now, fail)
                m == _checkAndMigrateData(h.ls, svc, fail)
            IN  /\ service' = svc
                /\ localStorage' = m.ls
                /\ ret' = Outcome("initialize", Arr(<<preferredBackend, userId>>),
                                  [m EXCEPT !.val = h.val])
       ELSE \* _createService throws; the catch block builds a LocalStorageService
            /\ service' = LocalStorageService(userId, available)
            /\ localStorage' = localStorage
            /\ ret' = Outcome("initialize", Arr(<<preferredBackend, userId>>),
                              Done(localStorage, Undefined))
    /\ factory' = [currentService |-> "LocalStorageService",
                   \* the backend asked for when it is localStorage, else the fallback
                   serviceType |-> LOCAL_STORAGE,
                   currentUserId |-> userId]
    /\ UNCHANGED <<now, tasks, calls>>

\* DataServiceFactory.switchUser: it has no await before its return, so it runs
\* from call to return without any other code in between
SwitchUser(userId) ==
    /\ Ready
    /\ calls < MaxCalls
    /\ IF factory.currentUserId = userId
       THEN UNCHANGED <<service, factory>>
       ELSE /\ service' = [service EXCEPT !.userId = userId]
            /\ factory' = [factory EXCEPT !.currentUserId = userId]
    /\ ret' = Outcome("switchUser", userId, Done(localStorage, Undefined))
    /\ calls' = calls + 1
    /\ UNCHANGED <<localStorage, now, tasks>>

GetWorkoutHistory(e) ==
    Call("getWorkoutHistory", Undefined, getWorkoutHistory(localStorage, service, e, now))

SaveWorkout(workout, e, fail) ==
    Call("saveWorkout", Obj(workout), saveWorkout(localStorage, service, workout, e, now, fail))

UpdateWorkout(workoutId, updates, e, fail) ==
    Call("updateWorkout", Obj([id |-> workoutId, updates |-> Obj(updates)]),
         updateWorkout(localStorage, service, workoutId, updates, e, now, fail))

DeleteWorkout(workoutId, e, fail) ==
    Call("deleteWorkout", workoutId, deleteWorkout(localStorage, service, workoutId, e, now, fail))

ClearWorkoutHistory(fail) ==
    Call("clearWorkoutHistory", Undefined, clearWorkoutHistory(localStorage, service, now, fail))

SavePreferences(preferences, fail) ==
    Call("savePreferences", Obj(preferences),
         savePreferences(localStorage, service, preferences, fail))

SaveSettings(settings, fail) ==
    Call("saveSettings", Obj(settings), saveSettings(localStorage, service, settings, now, fail))

ImportData(data, e, fail) ==
    Call("importData", data, importData(localStorage, service, data, e, now, fail))

ClearAllData ==
    Call("clearAllData", Undefined, clearAllData(localStorage, service))

\* importData(await exportData()), nothing else touching the store in between
ExportImport(e, fail) ==
    \E x \in {exportData(localStorage, service, e, now, fail)} :
        Call("importData(exportData())", x.val,
             IF x.err # "none" THEN x ELSE importData(x.ls, service, x.val, e, now, fail))

\* DataServiceFactory.migrateLegacyData
MigrateLegacyData(userId, fail) ==
    /\ calls < MaxCalls
    /\ \E r \in {IF ~Ready \/ ~Truthy(userId) THEN Done(localStorage, Bool(FALSE))
                 ELSE migrateLegacyDataToUser(localStorage, service, userId, fail)} :
        /\ WithinBounds(r.ls)
        /\ localStorage' = r.ls
        /\ service' = [service EXCEPT !.userId = migrateLegacyUserIdAfter(service, r)]
        /\ ret' = Outcome("migrateLegacyData", userId, r)
    /\ calls' = calls + 1
    /\ UNCHANGED <<factory, now, tasks>>

\* DataServiceFactory.migrateToBackend
MigrateToBackend(newBackend, available, e, fail) ==
    /\ tasks = <<>>
    /\ calls < MaxCalls
    /\ \E r \in {migrateToBackend(localStorage, service, factory.currentService,
                                  factory.serviceType, newBackend, available, e, now, fail)} :
        /\ WithinBounds(r.ls)
        /\ localStorage' = r.ls
        /\ service' = r.service
        /\ factory' = [factory EXCEPT !.serviceType = r.serviceType]
        /\ ret' = Outcome("migrateToBackend", newBackend, r)
    /\ calls' = calls + 1
    /\ UNCHANGED <<now, tasks>>

Tick ==
    /\ now < MaxTime
    /\ now' = now + 1
    /\ UNCHANGED <<localStorage, service, factory, ret, tasks, calls>>

---------------------------------------------------------------------------
(* saveWorkout step by step.  An async function runs without interruption   *)
(* up to an await and is resumed later, after whatever else was issued in   *)
(* between.  getWorkoutHistory and saveSettings have no await of their own, *)
(* and getSettings awaits only after its saveSettings call has written, so  *)
(* saveWorkout is three uninterrupted pieces.                               *)

RemoveAt(s, i) == SubSeq(s, 1, i - 1) \o SubSeq(s, i + 1, Len(s))

\* the call: `await this.getWorkoutHistory()` reads the history of this.userId;
\* limit is the number of calls the caller lets be pending at a time
SaveWorkoutIssue(workout, e, limit) ==
    /\ Ready
    /\ calls < MaxCalls
    /\ Len(tasks) < limit
    /\ \E h \in {getWorkoutHistory(localStorage, service, e, now)} :
        IF h.err # "none"
        THEN /\ ret' = Outcome("saveWorkout", Obj(workout), h)
             /\ tasks' = tasks
        ELSE /\ tasks' = Append(tasks, [pc |-> "write", workout |-> workout, e |-> e,
                                        workouts |-> h.val.a, issuedFor |-> service.userId,
                                        settings |-> Null])
             /\ ret' = ret
    /\ calls' = calls + 1
    /\ UNCHANGED <<localStorage, service, factory, now>>

SaveWorkoutCall(workout, e) == SaveWorkoutIssue(workout, e, MaxTasks)

\* resumed with the list read: normalize, validate, upsert, _setItem under the
\* userId the service has now, then getSettings() up to its await
SaveWorkoutWrite(i) ==
    /\ i \in 1..Len(tasks)
    /\ tasks[i].pc = "write"
    /\ \E w \in {saveWorkoutWrite(localStorage, service, tasks[i].workouts, tasks[i].workout,
                                  tasks[i].e, now, NoFailure)} :
        IF w.err # "none"
        THEN /\ localStorage' = w.ls
             /\ ret' = Outcome("saveWorkout", Obj(tasks[i].workout), w)
             /\ tasks' = RemoveAt(tasks, i)
        ELSE \E g \in {getSettings(w.ls, service, now, NoFailure)} :
             /\ WithinBounds(g.ls)
             /\ localStorage' = g.ls
             /\ tasks' = [tasks EXCEPT ![i].pc = "settings", ![i].workouts = w.val.a,
                                       ![i].settings = g.val]
             /\ ret' = ret
    /\ UNCHANGED <<service, factory, now, calls>>

\* resumed with the settings: settings.totalWorkouts = workouts.length,
\* saveSettings(settings), return normalized
SaveWorkoutSettings(i) ==
    /\ i \in 1..Len(tasks)
    /\ tasks[i].pc = "settings"
    /\ \E s \in {saveSettings(localStorage, service,
                              With(tasks[i].settings.o, "totalWorkouts",
                                   Num(Len(tasks[i].workouts))),
                              now, NoFailure)} :
        /\ localStorage' = s.ls
        /\ ret' = Outcome("saveWorkout", Obj(tasks[i].workout),
                          [s EXCEPT !.val = Undefined])
    /\ tasks' = RemoveAt(tasks, i)
    /\ UNCHANGED <<service, factory, now, calls>>

\* getAllUserData up to `await Promise.all(...)`: this.userId = targetUserId,
\* then the three reads, each of which runs to its end or to its own await
\* before the next one starts
GetAllUserDataCall(userId, e, fail) ==
    /\ Ready
    /\ calls < MaxCalls
    /\ Len(tasks) < MaxTasks
    /\ IF ~Truthy(OrElse(userId, service.userId))
       THEN /\ ret' = Outcome("getAllUserData", userId,
                              Throw(localStorage, "User ID required for scoped data export",
                                    NoFault))
            /\ UNCHANGED <<localStorage, service, tasks>>
       ELSE \E svc \in {[service EXCEPT !.userId = OrElse(userId, service.userId)]} :
            \E r \in {getAllUserDataOf(getWorkoutHistory(localStorage, svc, e, now),
                                       getPreferences(localStorage, svc),
                                       getSettings(localStorage, svc, now, fail),
                                       svc.userId)} :
                /\ WithinBounds(r.ls)
                /\ localStorage' = r.ls
                /\ service' = svc
                /\ tasks' = Append(tasks, [pc |-> "finally", userId |-> userId,
                                           originalUserId |-> service.userId, r |-> r])
                /\ ret' = ret
    /\ calls' = calls + 1
    /\ UNCHANGED <<factory, now>>

\* resumed when the three reads have settled: the finally block puts
\* originalUserId back, then the call returns or throws
GetAllUserDataFinally(i) ==
    /\ i \in 1..Len(tasks)
    /\ tasks[i].pc = "finally"
    /\ service' = [service EXCEPT !.userId = tasks[i].originalUserId]
    /\ ret' = Outcome("getAllUserData", tasks[i].userId, tasks[i].r)
    /\ tasks' = RemoveAt(tasks, i)
    /\ UNCHANGED <<localStorage, factory, now, calls>>

---------------------------------------------------------------------------
(* Inputs *)

\* a complete workout as the logger form builds it, with or without an id
Lift(day) ==
    [date |-> DateStr(day), exercise |-> Str("Squat"), targetWeight |-> Num(100),
     actualWeight |-> Num(100), unit |-> Str("lbs"), barbell |-> Str("Olympic Barbell (45 lbs)"),
     sets |-> Num(3), reps |-> Num(5), completed |-> Bool(TRUE), notes |-> Str("")]
LiftWithId(id, day) == With(Lift(day), "id", id)

\* no weights: normalizeWorkout fills in 0, which DataValidators.workout rejects
NoWeights == [id |-> TimestampHexId(3), exercise |-> Str("Squat")]

\* a record as a stored history holds it
Stored(id, day) ==
    JSONRoundTrip(With(With(LiftWithId(id, day), "createdAt", Iso(0)), "updatedAt", Iso(0)))

\* a record as the application before ids were texts stored it: id: Date.now()
LegacyStored(n, day) == JSONRoundTrip(LiftWithId(Num(n), day))

WorkoutInputs ==
    {LiftWithId(TimestampHexId(1), 1), LiftWithId(TimestampHexId(2), 2), Lift(1), NoWeights}

WorkoutIdInputs == {TimestampHexId(1), TimestampHexId(2)}

UpdateInputs ==
    {[notes |-> Str("paused")], [id |-> TimestampHexId(1)], [targetWeight |-> Num(0 - 5)]}

PreferencesInputs == {[unit |-> Str("kg")], [theme |-> Str("blue")]}

SettingsInputs == {[totalWorkouts |-> Num(7)], [lastBackup |-> Iso(0)]}

Bundle(workouts) == [version |-> DATA_SCHEMA_VERSION, workouts |-> Arr(workouts)]

\* two records, the first one a later edit of the record TimestampHexId(1)
BundleWithKnownId ==
    Obj(Bundle(<<LiftWithId(TimestampHexId(1), 2), LiftWithId(TimestampHexId(2), 1)>>))

\* two records, the first one without weights
BundleWithInvalid == Obj(Bundle(<<NoWeights, LiftWithId(TimestampHexId(2), 2)>>))

\* a bundle of another schema version carrying preferences and settings
BundleWithSettings ==
    Obj([Bundle(<<Lift(2)>>) EXCEPT !.version = Str("0.9.0")]
            @@ [preferences |-> Obj([theme |-> Str("dark")]),
                settings |-> Obj([totalWorkouts |-> Num(9), lastBackup |-> Iso(0)])])

BundleInputs ==
    {BundleWithKnownId, BundleWithInvalid, BundleWithSettings, Obj([workouts |-> Arr(<<>>)])}

FailureNames == {"QuotaExceededError", "SecurityError"}
Quota == {"QuotaExceededError"}

\* what earlier sessions left in the store under another user and under the
\* unscoped keys
OtherScopes ==
    (<<WORKOUT_HISTORY>> :> Arr(<<Stored(TimestampHexId(1), 1)>>)) @@
    (<<APP_SETTINGS>> :> Obj(JSONRoundTrip(With(createDefaultSettings(0), "totalWorkouts", Num(1))))) @@
    (<<WORKOUT_HISTORY, "_user_", UserB.s>> :> Arr(<<Stored(TimestampHexId(2), 1)>>)) @@
    (<<USER_PREFERENCES, "_user_", UserB.s>> :> Obj(With(DEFAULT_PREFERENCES, "unit", Str("kg"))))

---------------------------------------------------------------------------
(* Spec: the calls of one session, each awaited before the next, on the     *)
(* scope of UserA, which starts empty.                                      *)

Constructed ==
    /\ service = NoService
    /\ factory = [currentService |-> "null", serviceType |-> Null, currentUserId |-> Null]
    /\ now = 0
    /\ ret = [op |-> "new", arg |-> Undefined, err |-> "none", val |-> Undefined,
              failed |-> NoFault]
    /\ tasks = <<>>
    /\ calls = 0

Init ==
    /\ localStorage = OtherScopes
    /\ Constructed

Next ==
    \/ Initialize(Null, UserA, TRUE, NoFailure)
    \/ \E w \in WorkoutInputs, e \in Entropy,
          f \in Failures({WORKOUT_HISTORY, APP_SETTINGS}, FailureNames) : SaveWorkout(w, e, f)
    \/ \E id \in WorkoutIdInputs, u \in UpdateInputs, e \in Entropy,
          f \in Failures({WORKOUT_HISTORY}, Quota) : UpdateWorkout(id, u, e, f)
    \/ \E id \in WorkoutIdInputs, e \in Entropy,
          f \in Failures({WORKOUT_HISTORY}, Quota) : DeleteWorkout(id, e, f)
    \/ \E f \in Failures({APP_SETTINGS}, Quota) : ClearWorkoutHistory(f)
    \/ \E p \in PreferencesInputs, f \in Failures({USER_PREFERENCES}, FailureNames) :
            SavePreferences(p, f)
    \/ \E s \in SettingsInputs, f \in Failures({APP_SETTINGS}, FailureNames) : SaveSettings(s, f)
    \/ \E d \in BundleInputs, e \in Entropy,
          f \in Failures({WORKOUT_HISTORY, USER_PREFERENCES, APP_SETTINGS}, Quota) :
            ImportData(d, e, f)
    \/ \E e \in Entropy, f \in Failures({APP_SETTINGS}, Quota) : ExportImport(e, f)
    \/ ClearAllData
    \/ Tick

Spec == Init /\ [][Next]_vars

---------------------------------------------------------------------------
(* SpecLegacy: a store written before keys were user-scoped, then           *)
(* initialize, migrateLegacyData and saveWorkout for UserA.                 *)

LegacyHistories ==
    {<<LegacyStored(1700, 1)>>,
     <<LegacyStored(1700, 2), Stored(EarlierId(1), 1)>>,
     <<[exercise |-> Str("Squat")], LegacyStored(1700, 1)>>,
     <<Stored(EarlierId(1), 2), Stored(EarlierId(2), 1)>>}

\* the store holding the given values under the unscoped keys; Undefined: no such key
LegacyStore(history, preferences, settings) ==
    LET present == {x \in {<<WORKOUT_HISTORY, history>>, <<USER_PREFERENCES, preferences>>,
                           <<APP_SETTINGS, settings>>} : x[2].t # "undefined"}
    IN  [k \in {<<x[1]>> : x \in present} |-> (CHOOSE x \in present : x[1] = k[1])[2]]

LegacyStores ==
    {LegacyStore(h, p, s) :
        h \in {Undefined} \cup {Arr(a) : a \in LegacyHistories},
        p \in {Undefined, Obj(With(DEFAULT_PREFERENCES, "unit", Str("kg")))},
        s \in {Undefined,
               Obj(JSONRoundTrip(With(createDefaultSettings(0), "totalWorkouts", Num(2))))}}

LegacyWorkoutInputs == {Lift(3), LiftWithId(EarlierId(1), 3), LiftWithId(EarlierId(3), 3)}

InitLegacy ==
    /\ localStorage \in LegacyStores
    /\ Constructed

NextLegacy ==
    \/ Initialize(Null, UserA, TRUE, NoFailure)
    \/ \E f \in Failures({WORKOUT_HISTORY, APP_SETTINGS}, Quota) : MigrateLegacyData(UserA, f)
    \/ \E w \in LegacyWorkoutInputs, e \in Entropy : SaveWorkout(w, e, NoFailure)

SpecLegacy == InitLegacy /\ [][NextLegacy]_vars

---------------------------------------------------------------------------
(* SpecRead: getWorkoutHistory on whatever list of objects is stored under  *)
(* the history key of UserA.                                                *)

RawEntries ==
    {Stored(EarlierId(1), 1),
     LegacyStored(1700, 1),
     JSONRoundTrip(With(With(Lift(2), "targetWeight", Str("100")), "id", NumericId(7))),
     With(Stored(EarlierId(2), 2), "unit", Str("stone")),
     With(Stored(EarlierId(3), 1), "sets", Num(0 - 5)),
     [exercise |-> Str("Squat")],
     EmptyObject}

RawLists == UNION {[1..n -> RawEntries] : n \in 0..MaxRaw}

InitRead ==
    /\ \E raw \in RawLists : localStorage = (ScopedKey(UserA, WORKOUT_HISTORY) :> Arr(raw))
    /\ Constructed

NextRead ==
    \/ Initialize(Null, UserA, TRUE, NoFailure)
    \/ \E e \in Entropy : GetWorkoutHistory(e)
    \/ Tick

SpecRead == InitRead /\ [][NextRead]_vars

---------------------------------------------------------------------------
(* SpecSwitch: two users with a history each; saveWorkout runs piece by     *)
(* piece and switchUser may be issued between two pieces.                   *)

InitialHistory(userId) ==
    IF userId = UserA THEN <<Stored(EarlierId(1), 1)>> ELSE <<Stored(EarlierId(2), 1)>>

TwoUsers ==
    [k \in {ScopedKey(u, key) : u \in Users, key \in {WORKOUT_HISTORY, APP_SETTINGS}} |->
        IF k[1] = WORKOUT_HISTORY
        THEN Arr(InitialHistory(Str(k[3])))
        ELSE Obj(JSONRoundTrip(With(createDefaultSettings(0), "totalWorkouts", Num(1))))]

InitSwitch ==
    /\ localStorage = TwoUsers
    /\ Constructed

NextSwitch ==
    \/ Initialize(Null, UserA, TRUE, NoFailure)
    \/ \E u \in Users : SwitchUser(u)
    \/ \E w \in {Lift(2), Lift(3)}, e \in Entropy : SaveWorkoutCall(w, e)
    \/ \E i \in 1..MaxTasks : SaveWorkoutWrite(i)
    \/ \E i \in 1..MaxTasks : SaveWorkoutSettings(i)
    \/ Tick

SpecSwitch == InitSwitch /\ [][NextSwitch]_vars

---------------------------------------------------------------------------
(* What the claims are stated with *)

AnyEntropy == CHOOSE e \in Entropy : TRUE

Positive(v) == v.t = "number" /\ ~IsNaN(v) /\ v.n > 0

\* validate(record) = ok: required fields present, weights and counts positive,
\* unit one of the two
Passes(w) ==
    /\ \A f \in RequiredWorkoutFields : f \in DOMAIN w /\ w[f].t \notin {"undefined", "null"}
    /\ Positive(w.targetWeight) /\ Positive(w.actualWeight)
    /\ Positive(w.sets) /\ Positive(w.reps)
    /\ w.unit \in {Str("lbs"), Str("kg")}

\* the raw entry is a valid record once normalized
ValidAfterNormalize(raw) == Passes(normalizeWorkout(raw, {}, AnyEntropy, 0))

\* an id normalization leaves as it is
StableId(id) == IdShape(id) \in {"timestamp_hex", "uuid"}

\* the same record, apart from the fields named
SameExcept(a, b, fields) ==
    /\ DOMAIN a = DOMAIN b
    /\ \A f \in DOMAIN a \ fields : a[f] = b[f]

HistoryOf(ls) == StoredHistory(ls, UserA).a

DataOps ==
    {"saveWorkout", "updateWorkout", "deleteWorkout", "clearWorkoutHistory",
     "savePreferences", "saveSettings", "importData", "clearAllData"}

ScopedTo(k, userId) == Len(k) = 3 /\ k[2] = "_user_" /\ k[3] = userId.s

SameAt(ls1, ls2, k) ==
    (k \in DOMAIN ls1) = (k \in DOMAIN ls2) /\ (k \in DOMAIN ls1 => ls1[k] = ls2[k])

---------------------------------------------------------------------------
(* C1 *)

\* C1: from an empty scope, after any sequence of awaited saveWorkout,
\* updateWorkout, deleteWorkout, clearWorkoutHistory and importData calls, no
\* two records of the stored history have the same id.
C1_StoredIdsUnique ==
    \A i, j \in 1..Len(HistoryOf(localStorage)) :
        i # j => HistoryOf(localStorage)[i].id # HistoryOf(localStorage)[j].id

---------------------------------------------------------------------------
(* C2 *)

\* C2: with the service scoped to UserA, a data operation leaves every key
\* that is not suffixed _user_<UserA> as it was: present or absent, and with
\* the same value.
C2_OnlyOwnKeysTouched ==
    [][(ret'.op \in DataOps /\ service.userId = UserA /\ calls' = calls + 1) =>
            \A k \in DOMAIN localStorage \cup DOMAIN localStorage' :
                ~ScopedTo(k, UserA) => SameAt(localStorage, localStorage', k)]_vars

\* a saveWorkout under UserA has stored a record and the other scopes hold
\* what they held
C2_Witness ==
    /\ ret.op = "saveWorkout" /\ ret.err = "none"
    /\ service.userId = UserA
    /\ Len(HistoryOf(localStorage)) = 1
    /\ \A k \in DOMAIN OtherScopes : k \in DOMAIN localStorage /\ localStorage[k] = OtherScopes[k]

---------------------------------------------------------------------------
(* C3 *)

\* C3: switchUser never mixes two users' data: each user's stored history
\* still holds every record it held at the start, and holds no record of the
\* other user, also when switchUser is issued while a saveWorkout is pending.
C3_SwitchUserNeverMixes ==
    \A u \in Users :
        /\ \A i \in 1..Len(InitialHistory(u)) :
                \E j \in 1..Len(StoredHistory(localStorage, u).a) :
                    StoredHistory(localStorage, u).a[j].id = InitialHistory(u)[i].id
        /\ \A v \in Users \ {u} : \A i \in 1..Len(InitialHistory(v)) :
                \A j \in 1..Len(StoredHistory(localStorage, u).a) :
                    StoredHistory(localStorage, u).a[j].id # InitialHistory(v)[i].id

---------------------------------------------------------------------------
(* C4 *)

CountOps == {"saveWorkout", "deleteWorkout", "clearWorkoutHistory", "importData"}

\* C4: after a saveWorkout, deleteWorkout, clearWorkoutHistory or importData
\* that completed successfully, the stored settings' totalWorkouts is the
\* number of records in the stored history.
C4_TotalWorkoutsIsCount ==
    (ret.op \in CountOps /\ ret.err = "none") =>
        /\ StoredSettings(localStorage, UserA).t = "object"
        /\ Get(StoredSettings(localStorage, UserA).o, "totalWorkouts")
                = Num(Len(HistoryOf(localStorage)))

---------------------------------------------------------------------------
(* C5 *)

\* position of the first record of s with this id, 0 when there is none
IndexOfId(s, id) ==
    IF \E i \in 1..Len(s) : Get(s[i], "id") = id
    THEN CHOOSE i \in 1..Len(s) : Get(s[i], "id") = id /\ \A j \in 1..(i - 1) : Get(s[j], "id") # id
    ELSE 0

SavedOk(r) == r.op = "saveWorkout" /\ r.err = "none"

IsValidEntry(raw) == ValidAfterNormalize(raw)

---------------------------------------------------------------------------
(* C6 *)

WriteOps == {"saveWorkout", "savePreferences", "saveSettings"}

\* C6: when localStorage.setItem throws during saveWorkout, savePreferences or
\* saveSettings, the call raises: "Storage quota exceeded" exactly when the
\* exception was QuotaExceededError, the exception itself otherwise; and the
\* key whose write failed holds what it held before the call.
C6_SetFailureRaisesAndKeeps ==
    [][(ret'.op \in WriteOps /\ ret'.failed # NoFault /\ calls' = calls + 1) =>
        /\ ret'.err # "none"
        /\ (ret'.failed.name = "QuotaExceededError") = (ret'.err = "Storage quota exceeded")
        /\ ret'.failed.name # "QuotaExceededError" => ret'.err = ret'.failed.name
        /\ SameAt(localStorage, localStorage', ScopedKey(service.userId, ret'.failed.key))]_vars

\* the history write of a saveWorkout hit the quota, and the record stored
\* earlier is still the stored history
C6_Witness ==
    /\ ret.op = "saveWorkout"
    /\ ret.failed = Fault(WORKOUT_HISTORY, "QuotaExceededError")
    /\ ret.err = "Storage quota exceeded"
    /\ Len(HistoryOf(localStorage)) = 1

---------------------------------------------------------------------------
(* C7 *)

NoLegacyKey(ls) == \A k \in DOMAIN ls : Len(k) # 1

---------------------------------------------------------------------------
(* C8 *)

Imported(r) ==
    /\ r.op = "importData" /\ r.err = "none"
    /\ Get(r.arg.o, "workouts").t = "array"

\* the bundle record's id is in the store or on an earlier bundle record
DuplicateId(b, S, i) ==
    /\ Truthy(Get(b[i], "id"))
    /\ \/ \E j \in 1..Len(S) : S[j].id = Get(b[i], "id")
       \/ \E j \in 1..(i - 1) : Get(b[j], "id") = Get(b[i], "id")

\* C8 as stated: importData adds as many records as the bundle has records
\* whose id is neither in the store nor on an earlier record of the bundle.
C8_ImportAddsNonDuplicates ==
    [][(Imported(ret') /\ calls' = calls + 1) =>
        LET S == HistoryOf(localStorage)
            b == ret'.arg.o.workouts.a
        IN  Len(HistoryOf(localStorage')) =
                Len(S) + Cardinality({i \in 1..Len(b) : ~DuplicateId(b, S, i)})]_vars

\* the bundle record is valid once normalized, and its id, when normalization
\* keeps it, is neither in the store nor on an earlier valid bundle record
Accepted(b, S, i) ==
    /\ ValidAfterNormalize(b[i])
    /\ StableId(Get(b[i], "id")) =>
        /\ \A j \in 1..Len(S) : S[j].id # b[i].id
        /\ \A j \in 1..(i - 1) : ValidAfterNormalize(b[j]) => Get(b[j], "id") # b[i].id

\* C8 amended: importData adds exactly the bundle records that are valid once
\* normalized and whose normalized id is not a duplicate; a record that fails
\* validation is skipped like a duplicate, and every record stored before is
\* still stored, only its updatedAt rewritten.
C8_ImportAddsValidNonDuplicates ==
    [][(Imported(ret') /\ calls' = calls + 1) =>
        LET S == HistoryOf(localStorage)
            W == HistoryOf(localStorage')
            b == ret'.arg.o.workouts.a
        IN  /\ Len(W) = Len(S) + Cardinality({i \in 1..Len(b) : Accepted(b, S, i)})
            /\ \A i \in 1..Len(S) : \E j \in 1..Len(W) : SameExcept(W[j], S[i], {"updatedAt"})]_vars

\* a bundle of two records, one with the id of the stored record, was imported:
\* two records are stored and the one with that id is the one stored before
C8_Witness ==
    /\ Imported(ret)
    /\ ret.arg = BundleWithKnownId
    /\ Len(HistoryOf(localStorage)) = 2
    /\ \E i \in 1..2 : /\ HistoryOf(localStorage)[i].id = TimestampHexId(1)
                       /\ HistoryOf(localStorage)[i].date = DateStr(1)

---------------------------------------------------------------------------
(* C9 *)

\* what getPreferences returns
PreferencesView(ls) == getPreferences(ls, [userId |-> UserA, isAvailable |-> TRUE])

\* what getSettings returns at time ms
SettingsView(ls, ms) ==
    IF StoredSettings(ls, UserA).t # "object" THEN createDefaultSettings(ms)
    ELSE Spread(DEFAULT_SETTINGS, StoredSettings(ls, UserA).o)

RoundTripped(r) == r.op = "importData(exportData())" /\ r.err = "none"

---------------------------------------------------------------------------
(* C10 *)

\* C10: on any stored list of objects getWorkoutHistory does not raise, every
\* record it returns passes validation, and it returns one record for each
\* stored entry that is valid once normalized, leaving out the others.
C10_ReadReturnsOnlyValid ==
    ret.op = "getWorkoutHistory" =>
        /\ ret.err = "none"
        /\ \A i \in 1..Len(ret.val.a) : Passes(ret.val.a[i])
        /\ Len(ret.val.a) =
                Cardinality({i \in 1..Len(HistoryOf(localStorage)) :
                                ValidAfterNormalize(HistoryOf(localStorage)[i])})

\* a list of two entries was read and one of them was left out
C10_Witness ==
    /\ ret.op = "getWorkoutHistory"
    /\ Len(HistoryOf(localStorage)) = 2
    /\ Len(ret.val.a) = 1

---------------------------------------------------------------------------
(* SpecNormalize: DataValidators.workout(DataTransformers.normalizeWorkout(  *)
(* raw, existingIds)) on an object whose fields are present or not, numbers *)
(* or texts.                                                                *)

EmptyStore == [k \in {} |-> Null]

\* the objects normalized: a field holding undefined is an absent field
NormalizeInputs ==
    {JSONRoundTrip(o) : o \in
        [id : {Undefined, TimestampHexId(1), NumericId(7)},
         targetWeight : {Undefined, Null, Num(100), Str("100"), Str("abc"), Num(0 - 5)},
         actualWeight : {Undefined, Num(100), Num(0)},
         unit : {Undefined, Str(""), Str("kg"), Str("stone")},
         sets : {Undefined, Num(3), Num(0), Str("-5")},
         reps : {Undefined, Num(5)}]}

\* existingIds as callers pass it: a Set, or the index Array.prototype.map passes
ExistingIdsInputs == {IdSet({}), IdSet({TimestampHexId(1)}), Num(0)}

InitNormalize ==
    /\ localStorage = EmptyStore
    /\ service = NoService
    /\ factory = [currentService |-> "null", serviceType |-> Null, currentUserId |-> Null]
    /\ now = 0
    /\ \E raw \in NormalizeInputs :
          ret = [op |-> "input", arg |-> Obj(raw), err |-> "none", val |-> Undefined,
                 failed |-> NoFault]
    /\ tasks = <<>>
    /\ calls = 0

\* validate(normalize(raw, existingIds)): ret.err is what was thrown, ret.val the
\* normalized record
NormalizeAndValidate(existingIds, e) ==
    /\ ret.op = "input"
    /\ \E r \in {validateNormalized(ret.arg.o, existingIds, e, now)} :
          ret' = [op |-> "validate(normalize())", arg |-> Arr(<<ret.arg, existingIds>>),
                  err |-> r.err, val |-> r.val, failed |-> NoFault]
    /\ UNCHANGED <<localStorage, service, factory, now, tasks, calls>>

NextNormalize ==
    \/ \E x \in ExistingIdsInputs, e \in Entropy : NormalizeAndValidate(x, e)
    \/ Tick

SpecNormalize == InitNormalize /\ [][NextNormalize]_vars

\* Number(v) < 0
Negative(v) == v.t = "number" /\ ~IsNaN(v) /\ v.n < 0

\* what the raw object has to carry for its normalized form to be valid
CarriesWeights(raw) ==
    /\ Positive(ToNumber(Get(raw, "targetWeight")))
    /\ Positive(ToNumber(Get(raw, "actualWeight")))
    /\ ~Truthy(Get(raw, "unit")) \/ Get(raw, "unit") \in {Str("lbs"), Str("kg")}
    /\ ~Negative(ToNumber(Get(raw, "sets")))
    /\ ~Negative(ToNumber(Get(raw, "reps")))

Normalized == ret.op = "validate(normalize())" /\ ret.arg.a[2].t = "set"

\* C11 (as stated): for any input object, the empty object included, normalize
\* does not raise and validate(normalize(obj)) succeeds.
C11_NormalizeThenValidateSucceeds ==
    Normalized => ret.err = "none"

\* C11 (amended): normalize does not raise for any input object, and
\* validate(normalize(obj)) succeeds exactly when the object carries target and
\* actual weights that read as positive numbers, a unit that is absent, empty,
\* lbs or kg, and no negative sets or reps; otherwise validate raises.
C11_NormalizeNeverRaisesValidateMay ==
    Normalized =>
        /\ ret.err # "TypeError"
        /\ ret.val.t = "object"
        /\ ret.err = "none" <=> CarriesWeights(ret.arg.a[1].o)

\* the empty object was normalized and validate raised on the weight filled in
C11_Witness ==
    /\ Normalized
    /\ ret.arg.a[1].o = EmptyObject
    /\ ret.val.o.targetWeight = Num(0)
    /\ ret.err = "Target weight must be a positive number"

---------------------------------------------------------------------------
(* SpecGenerate: generateWorkoutId(existingIds) for a set of ids taken and   *)
(* the draws of Date.now() and Math.random() during the call.               *)

\* the ids one call can draw: IdSpan timestamp_hex texts, a widened one, a UUID
DrawableIds == {TimestampHexId(n) : n \in 1..IdSpan} \cup {WidenedId(1), UuidId(1)}

\* a clock and a generator that move from attempt to attempt, or stand still
GenerateEntropy ==
    [first : 0..1, step : {0, 1}, span : {IdSpan}, wide : {1}, uuid : {1}]

InitGenerate ==
    /\ localStorage = EmptyStore
    /\ service = NoService
    /\ factory = [currentService |-> "null", serviceType |-> Null, currentUserId |-> Null]
    /\ now = 0
    /\ \E existingIds \in SUBSET DrawableIds :
          ret = [op |-> "input", arg |-> IdSet(existingIds), err |-> "none", val |-> Undefined,
                 failed |-> NoFault]
    /\ tasks = <<>>
    /\ calls = 0

GenerateWorkoutId(e) ==
    /\ ret.op = "input"
    /\ ret' = [op |-> "generateWorkoutId", arg |-> ret.arg, err |-> "none",
               val |-> generateWorkoutId(ret.arg.s, e), failed |-> NoFault]
    /\ UNCHANGED <<localStorage, service, factory, now, tasks, calls>>

NextGenerate == \E e \in GenerateEntropy : GenerateWorkoutId(e)

SpecGenerate == InitGenerate /\ [][NextGenerate]_vars

\* C12: generateWorkoutId(existingIds) never returns a member of existingIds,
\* whatever the set and the colliding candidates, the UUID fallback included.
C12_GeneratedIdIsFresh ==
    ret.op = "generateWorkoutId" => ret.val \notin ret.arg.s

---------------------------------------------------------------------------
(* App.js: calculatePlates, with the plate and barbell lists of             *)
(* utils/constants.js.  Weights are whole numbers of thousandths of the     *)
(* unit, so that 2.5 is 2500, 1.25 is 1250 and 0.01 is 10.                  *)

PLATE_WEIGHTS_LBS == <<45000, 25000, 10000, 5000, 2500>>
PLATE_WEIGHTS_KG == <<25000, 20000, 15000, 10000, 5000, 2500, 1250>>

\* BARBELL_OPTIONS: the weight of each option
BARBELL_OPTIONS == [lbs |-> <<45000, 35000, 15000>>, kg |-> <<20000, 15000, 10000>>]

\* Variant of RoundHundredths that rounds to one decimal place; C13 must fail
\* on it.
RoundTenths(x) == ((x + 50) \div 100) * 100

\* Math.round(x * 100) / 100
RoundHundredths(x) == ((x + 5) \div 10) * 10

RECURSIVE PlateLoopStrict(_, _)
\* Variant of PlateLoop that takes a plate only when more than its weight
\* remains; C14 must fail on it.
PlateLoopStrict(plateWeights, remainingWeight) ==
    IF plateWeights = <<>> THEN <<>>
    ELSE IF remainingWeight > Head(plateWeights)
         THEN <<remainingWeight \div Head(plateWeights)>> \o
              PlateLoopStrict(Tail(plateWeights),
                              RoundHundredths(remainingWeight -
                                  (remainingWeight \div Head(plateWeights)) * Head(plateWeights)))
         ELSE <<0>> \o PlateLoopStrict(Tail(plateWeights), remainingWeight)

RECURSIVE PlateLoopPerSide(_, _)
\* Variant of PlateLoop that counts the plates of one side of the bar; C15 must
\* fail on it.
PlateLoopPerSide(plateWeights, remainingWeight) ==
    IF plateWeights = <<>> THEN <<>>
    ELSE IF remainingWeight >= 2 * Head(plateWeights)
         THEN <<remainingWeight \div (2 * Head(plateWeights))>> \o
              PlateLoopPerSide(Tail(plateWeights),
                               RoundHundredths(remainingWeight -
                                   (remainingWeight \div (2 * Head(plateWeights)))
                                       * 2 * Head(plateWeights)))
         ELSE <<0>> \o PlateLoopPerSide(Tail(plateWeights), remainingWeight)

RECURSIVE PlateLoop(_, _)
\* the for loop over plateWeights: the count of each plate, in their order
PlateLoop(plateWeights, remainingWeight) ==
    IF plateWeights = <<>> THEN <<>>
    ELSE IF remainingWeight >= Head(plateWeights)
         THEN <<remainingWeight \div Head(plateWeights)>> \o
              PlateLoop(Tail(plateWeights),
                        RoundHundredths(remainingWeight -
                            (remainingWeight \div Head(plateWeights)) * Head(plateWeights)))
         ELSE <<0>> \o PlateLoop(Tail(plateWeights), remainingWeight)

RECURSIVE SumSeq(_)
\* reduce((sum, x) => sum + x, 0)
SumSeq(xs) == IF xs = <<>> THEN 0 ELSE Head(xs) + SumSeq(Tail(xs))

Abs(x) == IF x < 0 THEN 0 - x ELSE x

RECURSIVE BinaryExponent(_)
\* the exponent e of the double that holds x / 1000: 2^e <= x / 1000 < 2^(e + 1)
BinaryExponent(x) ==
    IF x >= 2000 THEN BinaryExponent(x \div 2) + 1
    ELSE IF x >= 1000 THEN 0
    ELSE BinaryExponent(2 * x) - 1

RECURSIVE Pow2Mod(_, _)
\* 2^p modulo m
Pow2Mod(p, m) == IF p = 0 THEN 1 % m ELSE (2 * Pow2Mod(p - 1, m)) % m

\* what x / 1000 leaves beyond the 53 bits of the double, in thousandths of
\* the unit in the last place: 0 when the double holds it exactly, less than
\* 500 when the double is rounded down, more when it is rounded up
BeyondLastPlace(x) == ((x % 1000) * Pow2Mod(52 - BinaryExponent(x), 1000)) % 1000

\* Math.abs(actualWeight - targetWeight) < 0.01 on doubles.  actualWeight is
\* a sum of binary fractions and exact; targetWeight is the double nearest
\* to its decimal value.  A difference of exactly one hundredth compares as
\* less than 0.01 when the rounding of targetWeight has made it smaller.
WithinHundredth(actualWeight, targetWeight) ==
    \/ Abs(actualWeight - targetWeight) < 10
    \/ /\ targetWeight - actualWeight = 10
       /\ BeyondLastPlace(targetWeight) \in 1..499
    \/ /\ actualWeight - targetWeight = 10
       /\ BeyondLastPlace(targetWeight) > 500

\* the object returned once the counts are known
PlateResult(plateWeights, counts, targetWeight, barbellWeight, unit) ==
    [plateBreakdown |-> [w \in {plateWeights[i] : i \in 1..Len(plateWeights)} |->
                            SumSeq([i \in 1..Len(plateWeights) |->
                                       IF plateWeights[i] = w THEN counts[i] ELSE 0])],
     actualWeight |-> barbellWeight +
                        SumSeq([i \in 1..Len(plateWeights) |-> plateWeights[i] * counts[i]]),
     targetWeight |-> targetWeight,
     exactMatch |-> WithinHundredth(barbellWeight +
                          SumSeq([i \in 1..Len(plateWeights) |-> plateWeights[i] * counts[i]]),
                        targetWeight),
     totalPlates |-> SumSeq(counts),
     barbellWeight |-> barbellWeight,
     plateWeight |-> SumSeq([i \in 1..Len(plateWeights) |-> plateWeights[i] * counts[i]]),
     unit |-> unit]

\* calculatePlates(targetWeight) with the unit and the barbell selected
calculatePlates(targetWeight, unit, barbellWeight) ==
    LET plateWeights == IF unit = "lbs" THEN PLATE_WEIGHTS_LBS ELSE PLATE_WEIGHTS_KG IN
    IF targetWeight < barbellWeight
    THEN [plateBreakdown |-> [w \in {plateWeights[i] : i \in 1..Len(plateWeights)} |-> 0],
          actualWeight |-> barbellWeight,
          targetWeight |-> targetWeight,
          exactMatch |-> FALSE,
          totalPlates |-> 0,
          barbellWeight |-> barbellWeight,
          plateWeight |-> 0,
          unit |-> unit]
    ELSE PlateResult(plateWeights,
                     PlateLoop(plateWeights, RoundHundredths(targetWeight - barbellWeight)),
                     targetWeight, barbellWeight, unit)

---------------------------------------------------------------------------
(* SpecPlates: calculatePlates for a target in hundredths and each barbell   *)
(* option of each unit.                                                     *)

MaxTargetWeight == 230    \* largest target, in whole units

\* the targets: every hundredth from 0 to MaxTargetWeight
TargetWeights == {10 * h : h \in 0..(100 * MaxTargetWeight)}

Units == {"lbs", "kg"}

InitPlates ==
    /\ localStorage = EmptyStore
    /\ service = NoService
    /\ factory = [currentService |-> "null", serviceType |-> Null, currentUserId |-> Null]
    /\ now = 0
    /\ \E t \in TargetWeights, u \in Units :
        \E i \in 1..Len(BARBELL_OPTIONS[u]) :
          ret = [op |-> "input",
                 arg |-> [targetWeight |-> t, unit |-> u, barbellWeight |-> BARBELL_OPTIONS[u][i]],
                 err |-> "none", val |-> Undefined, failed |-> NoFault]
    /\ tasks = <<>>
    /\ calls = 0

CalculatePlates ==
    /\ ret.op = "input"
    /\ ret' = [op |-> "calculatePlates", arg |-> ret.arg, err |-> "none",
               val |-> calculatePlates(ret.arg.targetWeight, ret.arg.unit, ret.arg.barbellWeight),
               failed |-> NoFault]
    /\ UNCHANGED <<localStorage, service, factory, now, tasks, calls>>

NextPlates == CalculatePlates

SpecPlates == InitPlates /\ [][NextPlates]_vars

Calculated == ret.op = "calculatePlates"

\* the lightest plate of the unit
SmallestPlate(unit) == IF unit = "lbs" THEN 2500 ELSE 1250

\* C13 (as stated): actualWeight >= targetWeight when targetWeight >=
\* barbellWeight, and actualWeight = barbellWeight otherwise.
C13_ActualAtLeastTarget ==
    Calculated =>
        IF ret.arg.targetWeight >= ret.arg.barbellWeight
        THEN ret.val.actualWeight >= ret.arg.targetWeight
        ELSE ret.val.actualWeight = ret.arg.barbellWeight

\* C13 (amended): when targetWeight >= barbellWeight, actualWeight is at most
\* targetWeight and less than one smallest plate below it; otherwise
\* actualWeight = barbellWeight.
C13_ActualAtMostTarget ==
    Calculated =>
        IF ret.arg.targetWeight >= ret.arg.barbellWeight
        THEN /\ ret.val.actualWeight <= ret.arg.targetWeight
             /\ ret.arg.targetWeight - ret.val.actualWeight < SmallestPlate(ret.arg.unit)
        ELSE ret.val.actualWeight = ret.arg.barbellWeight

\* a target of 226 lbs on the 45 lbs bar was calculated: 225 lbs are loaded
C13_Witness ==
    /\ Calculated
    /\ ret.arg = [targetWeight |-> 226000, unit |-> "lbs", barbellWeight |-> 45000]
    /\ ret.val.actualWeight = 225000
    /\ ~ret.val.exactMatch

\* the plate list of the unit, as a set
PlatesOf(unit) ==
    {(IF unit = "lbs" THEN PLATE_WEIGHTS_LBS ELSE PLATE_WEIGHTS_KG)[i] :
        i \in 1..Len(IF unit = "lbs" THEN PLATE_WEIGHTS_LBS ELSE PLATE_WEIGHTS_KG)}

\* the totals of the multisets of exactly k plates, up to the largest load
\* (a plate weighs more than one unit, so there are fewer than MaxTargetWeight)
TotalsOf[u \in Units, k \in 0..MaxTargetWeight] ==
    IF k = 0 THEN {0}
    ELSE {w + p : w \in TotalsOf[u, k - 1], p \in PlatesOf(u)}
            \cap 0..(1000 * MaxTargetWeight)

\* C14: for every target >= barbell, totalPlates is minimal: no multiset of
\* plates from the list with fewer plates has the total plateWeight.
C14_FewestPlates ==
    Calculated /\ ret.arg.targetWeight >= ret.arg.barbellWeight =>
        \A k \in 0..(ret.val.totalPlates - 1) : ret.val.plateWeight \notin TotalsOf[ret.arg.unit, k]

\* 60 kg were put on the 10 kg bar as 25 + 25 + 10, where 20 + 20 + 20 has as
\* many plates
C14_Witness ==
    /\ Calculated
    /\ ret.arg = [targetWeight |-> 70000, unit |-> "kg", barbellWeight |-> 10000]
    /\ ret.val.totalPlates = 3
    /\ ret.val.plateWeight = 60000
    /\ ret.val.plateWeight \in TotalsOf["kg", 3]

\* C15: barbell 45 lbs, target 225 lbs, plates [45,25,10,5,2.5] give the
\* breakdown {45: 2} (every other plate 0), actualWeight 225, exactMatch true
\* and totalPlates 2.
C15_Example225 ==
    Calculated /\ ret.arg = [targetWeight |-> 225000, unit |-> "lbs", barbellWeight |-> 45000] =>
        /\ ret.val.plateBreakdown = (45000 :> 2) @@ (25000 :> 0) @@ (10000 :> 0) @@
                                    (5000 :> 0) @@ (2500 :> 0)
        /\ ret.val.actualWeight = 225000
        /\ ret.val.exactMatch
        /\ ret.val.totalPlates = 2

\* C15 (as computed): the same call returns the breakdown {45: 4}, actualWeight
\* 225, exactMatch true and totalPlates 4.
C15_Example225FourPlates ==
    Calculated /\ ret.arg = [targetWeight |-> 225000, unit |-> "lbs", barbellWeight |-> 45000] =>
        /\ ret.val.plateBreakdown = (45000 :> 4) @@ (25000 :> 0) @@ (10000 :> 0) @@
                                    (5000 :> 0) @@ (2500 :> 0)
        /\ ret.val.actualWeight = 225000
        /\ ret.val.exactMatch
        /\ ret.val.totalPlates = 4

\* calculatePlates has returned for 225 lbs on the 45 lbs bar
C15_Witness ==
    /\ Calculated
    /\ ret.arg = [targetWeight |-> 225000, unit |-> "lbs", barbellWeight |-> 45000]
    /\ ret.val.plateWeight = 180000

---------------------------------------------------------------------------
(* SpecInit: DataServiceFactory.initialize with every backend name, with    *)
(* and without a userId, on stores that hold no data version, the schema    *)
(* version, or the version written by an earlier release.                   *)

EARLIER_VERSION == Str("0.9.0")

\* the data-version key as earlier sessions left it, unscoped or under UserA
VersionStores ==
    {EmptyStore} \cup
    {(ScopedKey(u, DATA_VERSION) :> v) : u \in {Null, UserA},
                                         v \in {EARLIER_VERSION, DATA_SCHEMA_VERSION}}

Backends == {Null, LOCAL_STORAGE, INDEXED_DB, CLOUD_SYNC, Str("sqlite")}

InitStartup ==
    /\ localStorage \in {v @@ OtherScopes : v \in VersionStores}
    /\ Constructed

GetDataVersion ==
    Call("getDataVersion", Undefined, Done(localStorage, getDataVersion(localStorage, service)))

NextStartup ==
    \/ \E b \in Backends, u \in {Null, UserA}, available \in BOOLEAN,
          f \in Failures({DATA_VERSION, HEALTH_KEY}, FailureNames) : Initialize(b, u, available, f)
    \/ GetDataVersion
    \/ \E b \in Backends, available \in BOOLEAN, e \in Entropy,
          f \in Failures({APP_SETTINGS}, Quota) : MigrateToBackend(b, available, e, f)
    \/ Tick

SpecInit == InitStartup /\ [][NextStartup]_vars

\* the state initialize returns in
Initialized == ret.op = "initialize"
BackendAsked == ret.arg.a[1]
UserIdPassed == ret.arg.a[2]

\* _createService raised for the backend chosen
ConstructionFailed == Initialized /\ OrElse(BackendAsked, LOCAL_STORAGE) # LOCAL_STORAGE

FellBackToLocalStorage ==
    /\ ret.err = "none"
    /\ factory.currentService = "LocalStorageService"
    /\ factory.serviceType = LOCAL_STORAGE

\* C16 as stated: when the construction of the chosen backend raises,
\* initialize raises nothing and the factory is Ready on a LocalStorage
\* backend that has no user scope.
C16_FallbackHasNoUserScope ==
    ConstructionFailed => FellBackToLocalStorage /\ service.userId = Null

\* C16: when the construction of the chosen backend raises, initialize raises
\* nothing and the factory is Ready on a LocalStorage backend scoped to the
\* userId that initialize was given (unscoped only if it was given none).
C16_FallbackKeepsUserScope ==
    ConstructionFailed =>
        /\ FellBackToLocalStorage
        /\ service.userId = UserIdPassed
        /\ factory.currentUserId = UserIdPassed

C16_Witness ==
    /\ ConstructionFailed
    /\ BackendAsked = INDEXED_DB
    /\ UserIdPassed = UserA
    /\ Ready
    /\ service.userId = UserA

\* a step of initialize
InitializeStep == ~Ready /\ Ready'

\* the version getDataVersion reads through the backend initialize returns
StoredVersionBefore == getDataVersion(localStorage, service')
StoredVersionAfter == getDataVersion(localStorage', service')

\* migrateData ran: it wrote the version key, or its write is the one that threw
MigrateDataInvoked ==
    \/ ret'.failed.key = DATA_VERSION
    \/ /\ ScopedKey(service'.userId, DATA_VERSION) \in DOMAIN localStorage'
       /\ \/ ScopedKey(service'.userId, DATA_VERSION) \notin DOMAIN localStorage
          \/ localStorage'[ScopedKey(service'.userId, DATA_VERSION)] #
                 localStorage[ScopedKey(service'.userId, DATA_VERSION)]

MigrationOutcome ==
    /\ ret'.err = "none"
    /\ Ready'
    /\ IF ret'.failed.key = DATA_VERSION
       THEN StoredVersionAfter = StoredVersionBefore
       ELSE MigrateDataInvoked => StoredVersionAfter = DATA_SCHEMA_VERSION

\* C17: in every initialize, migrateData is invoked exactly when the stored
\* data version differs from the schema version; when it succeeds the stored
\* version is the schema version, and when it raises initialize raises
\* nothing, returns a backend and the stored version is what it was.
C17_MigratesExactlyOnMismatch ==
    [][InitializeStep =>
          /\ MigrateDataInvoked <=> StoredVersionBefore # DATA_SCHEMA_VERSION
          /\ MigrationOutcome]_vars

\* the same when the chosen backend is the one constructed
C17_MigratesOnConstructedBackend ==
    [][InitializeStep /\ OrElse(ret'.arg.a[1], LOCAL_STORAGE) = LOCAL_STORAGE =>
          /\ MigrateDataInvoked <=> StoredVersionBefore # DATA_SCHEMA_VERSION
          /\ MigrationOutcome]_vars

C17_SkippedOnFallback ==
    /\ ConstructionFailed
    /\ service.isAvailable
    /\ getDataVersion(localStorage, service) = EARLIER_VERSION

\* a step of migrateToBackend
MigrateToBackendStep == calls' = calls + 1 /\ ret'.op = "migrateToBackend"

\* the records the backend svc returns from the store ls
RecordCount(ls, svc) == Len(getWorkoutHistory(ls, svc, [first |-> 0, step |-> 1, span |-> IdSpan,
                                                         wide |-> 1, uuid |-> 1], 0).val.a)

ActiveBackendReplaced == service' # service \/ factory'.serviceType # factory.serviceType

\* C18: migrateToBackend replaces the active backend only when the new
\* backend returns as many records as the old one; when the construction of
\* the new backend fails (indexedDB, cloudSync, unknown names) or the call
\* raises for any other reason, currentService and serviceType are unchanged,
\* and a failed construction always raises.
C18_SwapOnlyAfterVerification ==
    [][MigrateToBackendStep =>
          /\ ActiveBackendReplaced =>
                 /\ ret'.err = "none"
                 /\ RecordCount(localStorage', service') = RecordCount(localStorage', service)
          /\ ret'.err # "none" => service' = service /\ factory' = factory
          /\ ret'.arg \notin {Null, LOCAL_STORAGE} /\ factory.serviceType # ret'.arg =>
                 ret'.err # "none"]_vars

C18_Witness ==
    /\ ret.op = "migrateToBackend"
    /\ ret.arg = INDEXED_DB
    /\ ret.err = "IndexedDB service not yet implemented"
    /\ Ready
    /\ factory.serviceType = LOCAL_STORAGE
    /\ service.userId = UserA

---------------------------------------------------------------------------
(* SpecScope: switchUser and migrateLegacyData issued while a                *)
(* getAllUserData is suspended at its await, on a store of two users and    *)
(* an unscoped history.                                                     *)

InitScope ==
    /\ localStorage = TwoUsers @@ (<<WORKOUT_HISTORY>> :> Arr(<<Stored(TimestampHexId(1), 1)>>))
    /\ Constructed

NextScope ==
    \/ Initialize(Null, UserA, TRUE, NoFailure)
    \/ \E u \in Users : SwitchUser(u)
    \/ \E u \in Users \cup {Null}, e \in Entropy, f \in Failures({APP_SETTINGS}, Quota) :
            GetAllUserDataCall(u, e, f)
    \/ \E i \in 1..MaxTasks : GetAllUserDataFinally(i)
    \/ \E u \in Users, f \in Failures({WORKOUT_HISTORY}, Quota) : MigrateLegacyData(u, f)
    \/ Tick

SpecScope == InitScope /\ [][NextScope]_vars

\* no call is suspended at an await
NothingInFlight == tasks = <<>>

\* a step of switchUser(u) taken while the factory is on u
SwitchToCurrentUserStep ==
    /\ calls' = calls + 1
    /\ tasks' = tasks
    /\ ret'.op = "switchUser"
    /\ ret'.arg = factory.currentUserId

\* C19: whenever no operation is in flight, the user scope of the backend is
\* the currentUserId of the factory, whatever the order in which switchUser,
\* getAllUserData and migrateLegacyData were issued and resumed; and a
\* switchUser to the current user changes neither.
C19_ScopeFollowsCurrentUser ==
    Ready /\ NothingInFlight => service.userId = factory.currentUserId

C19_SwitchToCurrentUserIsNoOp ==
    [][SwitchToCurrentUserStep => UNCHANGED <<service, factory, localStorage>>]_vars

C19_StaleScopeRestored ==
    /\ Ready
    /\ NothingInFlight
    /\ ret.op = "getAllUserData"
    /\ ret.err = "none"
    /\ factory.currentUserId = UserB
    /\ service.userId = UserA

---------------------------------------------------------------------------
(* services/userService.js: UserService, the directory of user profiles.    *)
(* A name is the sequence of its characters, so that trim() and             *)
(* toLowerCase() are computed; a profile is a record of tagged values, and  *)
(* ids and time stamps are the values of the rest of the module.            *)

USERS_LIST == "weightCalculator_users"
CURRENT_USER == "weightCalculator_currentUser"
USER_SESSIONS == "weightCalculator_userSessions"
USER_STORAGE_KEYS == {USERS_LIST, CURRENT_USER, USER_SESSIONS}

DEFAULT_USER_PREFERENCES ==
    [unit |-> Str("lbs"), theme |-> Str("light"),
     defaultBarbell |-> Obj([weight |-> Num(45), label |-> Str("Olympic Barbell (45 lbs)")]),
     autoSave |-> Bool(TRUE), showNotifications |-> Bool(TRUE)]

\* localStorage.setItem throws for none of the keys
NoUserFailure == [k \in USER_STORAGE_KEYS |-> "none"]

Name(chars) == [t |-> "string", chars |-> chars]

IsName(v) == v.t = "string" /\ "chars" \in DOMAIN v

UpperCase == <<"A", "B", "C", "D", "E", "F", "G", "H", "I", "J", "K", "L", "M",
               "N", "O", "P", "Q", "R", "S", "T", "U", "V", "W", "X", "Y", "Z">>
LowerCase == <<"a", "b", "c", "d", "e", "f", "g", "h", "i", "j", "k", "l", "m",
               "n", "o", "p", "q", "r", "s", "t", "u", "v", "w", "x", "y", "z">>
Digits == {"0", "1", "2", "3", "4", "5", "6", "7", "8", "9"}
WhiteSpace == {" "}

\* String.prototype.toLowerCase
toLowerCase(chars) ==
    [i \in 1..Len(chars) |->
        IF \E k \in 1..Len(UpperCase) : UpperCase[k] = chars[i]
        THEN LowerCase[CHOOSE k \in 1..Len(UpperCase) : UpperCase[k] = chars[i]]
        ELSE chars[i]]

\* String.prototype.trim
trim(chars) ==
    IF \A i \in 1..Len(chars) : chars[i] \in WhiteSpace THEN <<>>
    ELSE SubSeq(chars,
                CHOOSE i \in 1..Len(chars) :
                    chars[i] \notin WhiteSpace /\ \A j \in 1..(i - 1) : chars[j] \in WhiteSpace,
                CHOOSE i \in 1..Len(chars) :
                    chars[i] \notin WhiteSpace /\ \A j \in (i + 1)..Len(chars) : chars[j] \in WhiteSpace)

\* a name as a condition: the empty text is falsy
NameTruthy(v) == IF IsName(v) THEN v.chars # <<>> ELSE Truthy(v)

\* the characters of /^[a-zA-Z0-9\s\-_]+$/
NameCharacters ==
    {UpperCase[k] : k \in 1..Len(UpperCase)} \cup {LowerCase[k] : k \in 1..Len(LowerCase)} \cup
    Digits \cup WhiteSpace \cup {"-", "_"}

\* the checks of UserValidators.name on trimmed = name.trim()
ValidateTrimmedName(trimmed) ==
    IF Len(trimmed) < 2 THEN "User name must be at least 2 characters long"
    ELSE IF Len(trimmed) > 50 THEN "User name must be less than 50 characters"
    ELSE IF \E i \in 1..Len(trimmed) : trimmed[i] \notin NameCharacters
    THEN "User name can only contain letters, numbers, spaces, hyphens, and underscores"
    ELSE "ok"

\* UserValidators.name: "ok" or the message of the error thrown
ValidateUserName(name) ==
    IF ~NameTruthy(name) \/ ~IsName(name) THEN "User name is required and must be a string"
    ELSE ValidateTrimmedName(trim(name.chars))

\* UserValidators.user
ValidateUser(user) ==
    IF \E f \in {"id", "name", "createdAt"} : ~NameTruthy(Get(user, f))
    THEN "Missing required user fields"
    ELSE IF ValidateUserName(user.name) # "ok" THEN ValidateUserName(user.name)
    ELSE IF TypeOf(user.id) # "string" THEN "User ID must be a non-empty string"
    ELSE "ok"

\* the ids 'user_' + Date.now() + '_' + hex the generator can draw
UserIdTexts == <<Str("user_1"), Str("user_2"), Str("user_3"), Str("user_4"), Str("user_5")>>

\* UserTransformers.generateUserId: draws until the id is not in existingIds
generateUserId(existingIds, e) ==
    UserIdTexts[CHOOSE k \in 1..Len(UserIdTexts) :
                    /\ k > e.first
                    /\ UserIdTexts[k] \notin existingIds
                    /\ \A j \in (e.first + 1)..(k - 1) : UserIdTexts[j] \in existingIds]

\* userData.metadata?.f
MetadataOf(userData) ==
    IF Truthy(Get(userData, "metadata")) THEN Get(userData, "metadata").o ELSE EmptyObject

\* UserTransformers.normalizeUser
normalizeUser(userData, existingIds, e, ms) ==
    [id |-> IF Truthy(Get(userData, "id")) THEN Get(userData, "id")
            ELSE generateUserId(existingIds, e),
     name |-> IF NameTruthy(Get(userData, "name")) THEN Name(trim(Get(userData, "name").chars))
              ELSE Name(<<>>),
     createdAt |-> OrElse(Get(userData, "createdAt"), Iso(ms)),
     lastActive |-> OrElse(Get(userData, "lastActive"), Iso(ms)),
     preferences |-> Obj(Spread(DEFAULT_USER_PREFERENCES,
                                IF Truthy(Get(userData, "preferences"))
                                THEN Get(userData, "preferences").o ELSE EmptyObject)),
     isActive |-> IF Get(userData, "isActive") # Undefined THEN Get(userData, "isActive")
                  ELSE Bool(TRUE),
     metadata |-> Obj(Spread([totalWorkouts |-> OrElse(Get(MetadataOf(userData), "totalWorkouts"), Num(0)),
                              firstWorkout |-> OrElse(Get(MetadataOf(userData), "firstWorkout"), Null),
                              lastWorkout |-> OrElse(Get(MetadataOf(userData), "lastWorkout"), Null)],
                             MetadataOf(userData)))]

\* UserService._getItem; svc is the UserService instance, [isAvailable]
userGetItem(ls, svc, key, defaultValue) ==
    IF ~svc.isAvailable THEN defaultValue
    ELSE IF <<key>> \in DOMAIN ls THEN ls[<<key>>]
    ELSE defaultValue

\* UserService._setItem; fail[key] is what localStorage.setItem does for key
userSetItem(ls, svc, key, value, fail) ==
    IF ~svc.isAvailable THEN Throw(ls, "localStorage not available", NoFault)
    ELSE IF fail[key] = "QuotaExceededError"
        THEN Throw(ls, "Storage quota exceeded", Fault(key, fail[key]))
    ELSE IF fail[key] # "none" THEN Throw(ls, fail[key], Fault(key, fail[key]))
    ELSE Done([k \in DOMAIN ls \cup {<<key>>} |->
                  IF k = <<key>> THEN JSONStringify(value) ELSE ls[k]],
              Bool(TRUE))

\* localStorage.removeItem(key)
userRemoveItem(ls, key) == [k \in DOMAIN ls \ {<<key>>} |-> ls[k]]

RECURSIVE NormalizeValidUsers(_, _, _, _)
\* one turn of the loop of getAllUsers, normalized being the normalized
\* record: an invalid one is skipped
NormalizeValidNext(normalized, rest, existingIds, e, ms) ==
    IF ValidateUser(normalized) # "ok" THEN NormalizeValidUsers(rest, existingIds, e, ms)
    ELSE <<normalized>> \o NormalizeValidUsers(rest, existingIds \cup {normalized.id}, e, ms)

\* the loop of getAllUsers: the records that normalize to a valid profile
NormalizeValidUsers(users, existingIds, e, ms) ==
    IF users = <<>> THEN <<>>
    ELSE NormalizeValidNext(normalizeUser(Head(users), existingIds, e, ms), Tail(users),
                            existingIds, e, ms)

\* new Date(text): the time value of an ISO text
TimeOf(v) == IF "iso" \in DOMAIN v THEN v.iso ELSE 0

RECURSIVE InsertByLastActive(_, _)
\* user goes after the profiles that are as recent or more recent
InsertByLastActive(sorted, user) ==
    IF sorted = <<>> THEN <<user>>
    ELSE IF TimeOf(Head(sorted).lastActive) >= TimeOf(user.lastActive)
    THEN <<Head(sorted)>> \o InsertByLastActive(Tail(sorted), user)
    ELSE <<user>> \o sorted

RECURSIVE SortByLastActive(_)
\* users.sort((a, b) => new Date(b.lastActive) - new Date(a.lastActive)), stable
SortByLastActive(users) ==
    IF users = <<>> THEN <<>>
    ELSE InsertByLastActive(SortByLastActive(SubSeq(users, 1, Len(users) - 1)),
                            users[Len(users)])

\* the ids of the stored records that have one
UserIdsStored(users) ==
    {Get(users[i], "id") : i \in {j \in 1..Len(users) : Truthy(Get(users[j], "id"))}}

\* getAllUsers: the list, most recently active first
getAllUsers(ls, svc, e, ms) ==
    SortByLastActive(NormalizeValidUsers(userGetItem(ls, svc, USERS_LIST, Arr(<<>>)).a,
                                         UserIdsStored(userGetItem(ls, svc, USERS_LIST, Arr(<<>>)).a),
                                         e, ms))

\* users.findIndex(u => u.id === userId): 0 when there is none
FindUser(users, userId) ==
    IF \E i \in 1..Len(users) : users[i].id = userId
    THEN CHOOSE i \in 1..Len(users) : users[i].id = userId /\ \A j \in 1..(i - 1) : users[j].id # userId
    ELSE 0

\* users.find(user => user.id === userId) || null
ProfileOf(users, userId) ==
    IF FindUser(users, userId) = 0 THEN Null ELSE Obj(users[FindUser(users, userId)])

\* getUserById: the profile or Null
getUserById(ls, svc, userId, e, ms) ==
    IF ~Truthy(userId) THEN Null ELSE ProfileOf(getAllUsers(ls, svc, e, ms), userId)

\* getCurrentUser: the profile the pointer designates, or Null
getCurrentUser(ls, svc, e, ms) ==
    getUserById(ls, svc, userGetItem(ls, svc, CURRENT_USER, Null), e, ms)

\* the names createUser and updateUser compare with: of every profile of the
\* list, in lower case
ExistingNames(users) == {toLowerCase(users[i].name.chars) : i \in 1..Len(users)}

\* userExistsByName
userExistsByName(ls, svc, name, e, ms) ==
    /\ NameTruthy(name)
    /\ \E i \in 1..Len(getAllUsers(ls, svc, e, ms)) :
        /\ Truthy(getAllUsers(ls, svc, e, ms)[i].isActive)
        /\ trim(toLowerCase(getAllUsers(ls, svc, e, ms)[i].name.chars)) =
               trim(toLowerCase(name.chars))

\* createUser once the name is found free; newUser is the normalized profile
createUserPush(ls, svc, users, newUser, fail) ==
    IF ValidateUser(newUser) # "ok" THEN Throw(ls, ValidateUser(newUser), NoFault)
    ELSE Returning(userSetItem(ls, svc, USERS_LIST, Arr(Append(users, newUser)), fail),
                   Obj(newUser))

\* createUser with the list that getAllUsers returned
createUserIn(ls, svc, users, userData, e, ms, fail) ==
    IF ~IsName(Get(userData, "name")) THEN Throw(ls, "TypeError", NoFault)
    ELSE IF trim(toLowerCase(userData.name.chars)) \in ExistingNames(users)
    THEN Throw(ls, "A user with this name already exists", NoFault)
    ELSE createUserPush(ls, svc, users,
                        normalizeUser(userData, {users[i].id : i \in 1..Len(users)}, e, ms), fail)

createUser(ls, svc, userData, e, ms, fail) ==
    createUserIn(ls, svc, getAllUsers(ls, svc, e, ms), userData, e, ms, fail)

\* the entries of one user the session log keeps
SessionCap == 100

\* s.slice(-n)
LastOf(s, n) == IF Len(s) <= n THEN s ELSE SubSeq(s, Len(s) - n + 1, Len(s))

\* Variant of _logSessionOf that keeps the last 100 entries of the whole
\* log; C29 must fail on it.
_logSessionOfAll(ls, svc, sessions, userId, fail) ==
    Caught(ls, userSetItem(ls, svc, USER_SESSIONS, Arr(LastOf(sessions, SessionCap)), fail))

\* _logSession, sessions being the log with the new entry: keep the last 100
\* of this user after the entries of the others; an error is caught and logged
_logSessionOf(ls, svc, sessions, userId, fail) ==
    Caught(ls, userSetItem(ls, svc, USER_SESSIONS,
                           Arr(SelectSeq(sessions, LAMBDA s : s.userId # userId) \o
                               LastOf(SelectSeq(sessions, LAMBDA s : s.userId = userId),
                                      SessionCap)),
                           fail))

_logSession(ls, svc, userId, type, ms, fail) ==
    _logSessionOf(ls, svc,
                  Append(userGetItem(ls, svc, USER_SESSIONS, Arr(<<>>)).a,
                         [userId |-> userId, type |-> Str(type), timestamp |-> Iso(ms)]),
                  userId, fail)

\* Variant of clearCurrentUserOf that removes the users list with the
\* pointer; C28 must fail on it.
clearCurrentUserOfAll(ls, svc, currentUser, ms, fail) ==
    IF currentUser # Null
    THEN Done(userRemoveItem(userRemoveItem(_logSession(ls, svc, currentUser.o.id, "logout",
                                                        ms, fail).ls,
                                            CURRENT_USER),
                             USERS_LIST),
              Bool(TRUE))
    ELSE Done(userRemoveItem(userRemoveItem(ls, CURRENT_USER), USERS_LIST), Bool(TRUE))

\* clearCurrentUser once getCurrentUser has returned currentUser
clearCurrentUserOf(ls, svc, currentUser, ms, fail) ==
    IF currentUser # Null
    THEN Done(userRemoveItem(_logSession(ls, svc, currentUser.o.id, "logout", ms, fail).ls,
                             CURRENT_USER),
              Bool(TRUE))
    ELSE Done(userRemoveItem(ls, CURRENT_USER), Bool(TRUE))

\* clearCurrentUser: log the logout of the current user, remove the pointer
clearCurrentUser(ls, svc, e, ms, fail) ==
    clearCurrentUserOf(ls, svc, getCurrentUser(ls, svc, e, ms), ms, fail)

\* setCurrentUser after its `await this.updateUser(...)`, whose outcome is u:
\* store the pointer, log the login, return the profile
setCurrentUserAfter(u, svc, userId, user, ms, fail) ==
    IF u.err = "never settles" THEN [u EXCEPT !.val = user]
    ELSE IF u.err # "none" THEN u
    ELSE IF userSetItem(u.ls, svc, CURRENT_USER, userId, fail).err # "none"
    THEN userSetItem(u.ls, svc, CURRENT_USER, userId, fail)
    ELSE Done(_logSession(userSetItem(u.ls, svc, CURRENT_USER, userId, fail).ls,
                          svc, userId, "login", ms, fail).ls,
              user)

\* users[userIndex] = normalized
ReplaceAt(users, i, user) == [users EXCEPT ![i] = user]

\* updateUser(userId, { lastActive }) on the list users when the pointer
\* does not designate userId: write the restamped profile, return it
updateUserLastActive(ls, svc, users, userId, restamped, fail) ==
    Returning(userSetItem(ls, svc, USERS_LIST,
                          Arr(ReplaceAt(users, FindUser(users, userId), restamped)), fail),
              Obj(restamped))

\* setCurrentUser(normalized) at the end of updateUser(userId, ...), user
\* being what getUserById(normalized.id) returned.  For an active profile it
\* awaits updateUser(normalized.id, { lastActive }), which, the pointer
\* designating that id, awaits setCurrentUser again, and so on: the outcome
\* "never settles" stands for this chain of pending calls, which goes on
\* cycle by cycle (see SpinCycle)
updateUserRelogin(ls, svc, userId, normalized, user, e, ms, fail) ==
    IF user = Null THEN Throw(ls, "User not found", NoFault)
    ELSE IF ~Truthy(user.o.isActive)
    THEN Throw(ls, "Cannot set inactive user as current user", NoFault)
    ELSE IF normalized.id = userId
    THEN [Throw(ls, "never settles", NoFault) EXCEPT !.val = Obj(normalized)]
    ELSE Returning(setCurrentUserAfter(
                       updateUserLastActive(ls, svc, getAllUsers(ls, svc, e, ms), normalized.id,
                                            normalizeUser(With(user.o, "lastActive", Iso(ms)),
                                                          {}, e, ms),
                                            fail),
                       svc, normalized.id, user, ms, fail),
                   Obj(normalized))

\* the end of updateUser once the list is written and getCurrentUser has
\* returned currentUser
updateUserPointer(ls, svc, userId, normalized, currentUser, e, ms, fail) ==
    IF currentUser = Null \/ currentUser.o.id # userId THEN Done(ls, Obj(normalized))
    ELSE updateUserRelogin(ls, svc, userId, normalized,
                           getUserById(ls, svc, normalized.id, e, ms), e, ms, fail)

\* the end of updateUser, the list being written (w)
updateUserCurrent(w, svc, userId, normalized, e, ms, fail) ==
    IF w.err # "none" THEN w
    ELSE updateUserPointer(w.ls, svc, userId, normalized, getCurrentUser(w.ls, svc, e, ms),
                           e, ms, fail)

\* updateUser once the name is found free
updateUserWrite(ls, svc, users, userIndex, userId, normalized, e, ms, fail) ==
    IF ValidateUser(normalized) # "ok" THEN Throw(ls, ValidateUser(normalized), NoFault)
    ELSE updateUserCurrent(userSetItem(ls, svc, USERS_LIST,
                                       Arr(ReplaceAt(users, userIndex, normalized)), fail),
                           svc, userId, normalized, e, ms, fail)

\* the profiles other than userId
OtherUsers(users, userId) == SelectSeq(users, LAMBDA u : u.id # userId)

\* updateUser on the list users, the profile being at userIndex (0: not
\* found); the new name is compared with the names of the other profiles
updateUserIn(ls, svc, users, userIndex, userId, updates, e, ms, fail) ==
    IF userIndex = 0 THEN Throw(ls, "User not found", NoFault)
    ELSE IF /\ NameTruthy(Get(updates, "name"))
            /\ Get(updates, "name") # users[userIndex].name
            /\ trim(toLowerCase(updates.name.chars)) \in ExistingNames(OtherUsers(users, userId))
    THEN Throw(ls, "A user with this name already exists", NoFault)
    ELSE updateUserWrite(ls, svc, users, userIndex, userId,
                         normalizeUser(With(Spread(users[userIndex], updates),
                                            "lastActive", Iso(ms)), {}, e, ms),
                         e, ms, fail)

\* updateUser with the list that getAllUsers returned
updateUserOn(ls, svc, users, userId, updates, e, ms, fail) ==
    updateUserIn(ls, svc, users, FindUser(users, userId), userId, updates, e, ms, fail)

updateUser(ls, svc, userId, updates, e, ms, fail) ==
    updateUserOn(ls, svc, getAllUsers(ls, svc, e, ms), userId, updates, e, ms, fail)

\* the end of deleteUser, the list being written (w)
deleteUserPointer(ls, svc, userId, currentUser, e, ms, fail) ==
    IF currentUser # Null /\ currentUser.o.id = userId
    THEN clearCurrentUser(ls, svc, e, ms, fail)
    ELSE Done(ls, Bool(TRUE))

deleteUserCurrent(w, svc, userId, e, ms, fail) ==
    IF w.err # "none" THEN w
    ELSE deleteUserPointer(w.ls, svc, userId, getCurrentUser(w.ls, svc, e, ms), e, ms, fail)

\* Variant of deleteUserIn that takes the profile out of the list; C22 must
\* fail on it.
deleteUserInRemoving(ls, svc, users, userIndex, userId, e, ms, fail) ==
    IF userIndex = 0 THEN Throw(ls, "User not found", NoFault) ELSE
    deleteUserCurrent(userSetItem(ls, svc, USERS_LIST,
                                  Arr(SelectSeq(users, LAMBDA u : u.id # userId)), fail),
                      svc, userId, e, ms, fail)

deleteUserIn(ls, svc, users, userIndex, userId, e, ms, fail) ==
    IF userIndex = 0 THEN Throw(ls, "User not found", NoFault) ELSE
    deleteUserCurrent(userSetItem(ls, svc, USERS_LIST,
                                  Arr(ReplaceAt(users, userIndex,
                                                With(With(users[userIndex], "isActive", Bool(FALSE)),
                                                     "lastActive", Iso(ms)))),
                                  fail),
                      svc, userId, e, ms, fail)

\* deleteUser with the list that getAllUsers returned
deleteUserOn(ls, svc, users, userId, e, ms, fail) ==
    deleteUserIn(ls, svc, users, FindUser(users, userId), userId, e, ms, fail)

\* deleteUser: the profile stays in the list, marked inactive
deleteUser(ls, svc, userId, e, ms, fail) ==
    deleteUserOn(ls, svc, getAllUsers(ls, svc, e, ms), userId, e, ms, fail)

\* setCurrentUser once getUserById has returned user
setCurrentUserOf(ls, svc, userId, user, e, ms, fail) ==
    IF user = Null THEN Throw(ls, "User not found", NoFault)
    ELSE IF ~Truthy(user.o.isActive)
    THEN Throw(ls, "Cannot set inactive user as current user", NoFault)
    ELSE setCurrentUserAfter(updateUser(ls, svc, userId, [lastActive |-> Iso(ms)], e, ms, fail),
                             svc, userId, user, ms, fail)

\* typeof userOrId === 'string' ? userOrId : userOrId.id
UserIdOf(userOrId) ==
    IF userOrId.t = "object" THEN Get(userOrId.o, "id") ELSE userOrId

\* setCurrentUser; "never settles" when userId is the current user already
setCurrentUser(ls, svc, userOrId, e, ms, fail) ==
    setCurrentUserOf(ls, svc, UserIdOf(userOrId),
                     getUserById(ls, svc, UserIdOf(userOrId), e, ms), e, ms, fail)

---------------------------------------------------------------------------
(* SpecUsers: createUser, updateUser and deleteUser, each awaited before    *)
(* the next, on a directory that is empty or holds an active and a          *)
(* soft-deleted profile.                                                    *)

MaxUsers == 3           \* profiles in the users list

userService == [isAvailable |-> TRUE]

UserFailures == {NoUserFailure, [NoUserFailure EXCEPT ![USERS_LIST] = "QuotaExceededError"]}

Ann == <<"A", "n", "n">>
Bob == <<"B", "o", "b">>

NameInputs == {Name(Ann), Name(<<" ", "a", "N", "N", " ">>), Name(Bob), Name(<<"b", "o", "b", " ">>),
               Name(<<"C">>)}

StoredUsers(ls) == userGetItem(ls, userService, USERS_LIST, Arr(<<>>)).a

\* the list createUser({name: 'Ann'}), createUser({name: 'Bob'}) and
\* deleteUser of the second leave
AnnAndDeletedBob ==
    <<normalizeUser([name |-> Name(Ann)], {}, [first |-> 0], 0),
      With(normalizeUser([name |-> Name(Bob)], {Str("user_1")}, [first |-> 0], 0),
           "isActive", Bool(FALSE))>>

UserEntropy == {[first |-> 0]}

UserCall(op, arg, result) ==
    /\ calls < MaxCalls
    /\ \E r \in {result} :
        /\ Len(StoredUsers(r.ls)) <= MaxUsers
        /\ localStorage' = r.ls
        /\ ret' = Outcome(op, arg, r)
    /\ calls' = calls + 1
    /\ UNCHANGED <<service, factory, now, tasks>>

CreateUser(userData, e, fail) ==
    UserCall("createUser", Obj(userData),
             createUser(localStorage, userService, userData, e, now, fail))

UpdateUser(userId, updates, e, fail) ==
    UserCall("updateUser", Obj([id |-> userId, updates |-> Obj(updates)]),
             updateUser(localStorage, userService, userId, updates, e, now, fail))

DeleteUser(userId, e, fail) ==
    UserCall("deleteUser", userId, deleteUser(localStorage, userService, userId, e, now, fail))

InitUsers ==
    /\ localStorage \in {EmptyStore, (<<USERS_LIST>> :> Arr(AnnAndDeletedBob))}
    /\ Constructed

NextUsers ==
    \/ \E n \in NameInputs, e \in UserEntropy, f \in UserFailures : CreateUser([name |-> n], e, f)
    \/ \E u \in {Str("user_1"), Str("user_2"), Str("user_3")}, n \in NameInputs,
          e \in UserEntropy, f \in UserFailures : UpdateUser(u, [name |-> n], e, f)
    \/ \E u \in {Str("user_1"), Str("user_2")}, e \in UserEntropy, f \in UserFailures :
            DeleteUser(u, e, f)
    \/ Tick

SpecUsers == InitUsers /\ [][NextUsers]_vars

\* the name, in lower case and trimmed, of an active profile of the stored
\* list other than userId
ActiveNameOfAnother(ls, userId, chars) ==
    \E i \in 1..Len(StoredUsers(ls)) :
        /\ StoredUsers(ls)[i].id # userId
        /\ Truthy(StoredUsers(ls)[i].isActive)
        /\ trim(toLowerCase(StoredUsers(ls)[i].name.chars)) = trim(toLowerCase(chars))

NameRejected == ret'.err = "A user with this name already exists"

CreateUserStep == calls' = calls + 1 /\ ret'.op = "createUser"
UpdateUserStep == calls' = calls + 1 /\ ret'.op = "updateUser"

\* C20: createUser and updateUser reject a name as already used only when
\* it equals, ignoring case and surrounding whitespace, the name of another
\* profile that is active; a name that only soft-deleted profiles bear is
\* not rejected.
C20_NameRejectedOnlyForActive ==
    [][/\ CreateUserStep /\ NameRejected =>
              ActiveNameOfAnother(localStorage, Null, ret'.arg.o.name.chars)
       /\ UpdateUserStep /\ NameRejected =>
              ActiveNameOfAnother(localStorage, ret'.arg.o.id, ret'.arg.o.updates.o.name.chars)]_vars

\* an active profile's name is always rejected
C20_ActiveNameRejected ==
    [][/\ CreateUserStep /\ ActiveNameOfAnother(localStorage, Null, ret'.arg.o.name.chars) =>
              NameRejected
       /\ UpdateUserStep /\ ret'.err = "none" =>
              ~ActiveNameOfAnother(localStorage, ret'.arg.o.id,
                                   ret'.arg.o.updates.o.name.chars)]_vars

C20_DeletedNameRejected ==
    /\ ret.op = "createUser"
    /\ ret.err = "A user with this name already exists"
    /\ \A i \in 1..Len(StoredUsers(localStorage)) :
        trim(toLowerCase(StoredUsers(localStorage)[i].name.chars)) =
            trim(toLowerCase(ret.arg.o.name.chars))
        => ~Truthy(StoredUsers(localStorage)[i].isActive)

---------------------------------------------------------------------------
(* SpecSession: the calls of the user directory and of the session pointer, *)
(* each issued when the one before has returned, or while a call that       *)
(* never returns is still going round.                                      *)

MaxDepth == 2           \* setCurrentUser calls counted in a chain of pending calls

Cat == <<"C", "a", "t">>

LowerCat == <<"c", "a", "t">>

UserDataInputs == {[name |-> Name(LowerCat)], [id |-> Str("user_1"), name |-> Name(LowerCat)]}

PatchInputs == {[name |-> Name(Cat)], [isActive |-> Bool(TRUE)]}

SessionFailures ==
    {NoUserFailure} \cup
    {[NoUserFailure EXCEPT ![k] = "QuotaExceededError"] : k \in {USERS_LIST, USER_SESSIONS}}

DirectoryStore == (<<USERS_LIST>> :> Arr(AnnAndDeletedBob))

\* the store after setCurrentUser('user_1') on DirectoryStore
SignedInStore ==
    setCurrentUser(DirectoryStore, userService, Str("user_1"), [first |-> 0], 0, NoUserFailure).ls

StoredPointer(ls) == userGetItem(ls, userService, CURRENT_USER, Null)
StoredSessions(ls) == userGetItem(ls, userService, USER_SESSIONS, Arr(<<>>)).a

\* a call of the userService singleton: it returns or throws, or, when it
\* is caught in the chain of updateUser and setCurrentUser, stays pending
\* with depth setCurrentUser calls in the chain (counted up to MaxDepth) and
\* round, the number of rounds the chain has gone, modulo 2
SessionCall(op, arg, userId, depth, result) ==
    /\ calls < MaxCalls
    /\ \E r \in {result} :
        /\ Len(StoredUsers(r.ls)) <= MaxUsers
        /\ localStorage' = r.ls
        /\ IF r.err = "never settles"
           THEN /\ Len(tasks) < MaxTasks
                /\ tasks' = Append(tasks, [pc |-> "spin", op |-> op, arg |-> arg,
                                           userId |-> userId, depth |-> depth, round |-> 0,
                                           val |-> r.val])
                /\ ret' = ret
           ELSE /\ tasks' = tasks
                /\ ret' = Outcome(op, arg, r)
    /\ calls' = calls + 1
    /\ UNCHANGED <<service, factory, now>>

CreateUserCall(userData, e, fail) ==
    SessionCall("createUser", Obj(userData), Null, 0,
                createUser(localStorage, userService, userData, e, now, fail))

UpdateUserCall(userId, updates, e, fail) ==
    SessionCall("updateUser", Obj([id |-> userId, updates |-> Obj(updates)]), userId, 1,
                updateUser(localStorage, userService, userId, updates, e, now, fail))

DeleteUserCall(userId, e, fail) ==
    SessionCall("deleteUser", userId, userId, 0,
                deleteUser(localStorage, userService, userId, e, now, fail))

SetCurrentUserCall(userId, e, fail) ==
    SessionCall("setCurrentUser", userId, userId, 2,
                setCurrentUser(localStorage, userService, userId, e, now, fail))

ClearCurrentUserCall(e, fail) ==
    SessionCall("clearCurrentUser", Undefined, Null, 0,
                clearCurrentUser(localStorage, userService, e, now, fail))

\* the pending calls once the chain i has gone one more round
OneMoreRound(pending, i) ==
    [pending EXCEPT ![i].depth = IF @ < MaxDepth THEN @ + 1 ELSE MaxDepth,
                    ![i].round = 1 - @]

RECURSIVE Unwind(_, _, _, _, _, _)
\* the pending setCurrentUser calls resume, innermost first, each one
\* storing the pointer and logging the login
Unwind(r, svc, userId, depth, ms, fail) ==
    IF depth = 0 \/ r.err # "none" THEN r
    ELSE Unwind(setCurrentUserAfter(r, svc, userId, r.val, ms, fail), svc, userId, depth - 1,
                ms, fail)

\* one more round of the chain: the innermost setCurrentUser awaits
\* updateUser(userId, { lastActive }), which writes the list and, if the
\* pointer still designates userId, awaits setCurrentUser once more;
\* otherwise it returns and the pending calls resume one after the other
SpinCycle(i, e, fail) ==
    /\ i \in 1..Len(tasks)
    /\ tasks[i].pc = "spin"
    /\ \E c \in {updateUser(localStorage, userService, tasks[i].userId,
                            [lastActive |-> Iso(now)], e, now, fail)} :
        IF c.err = "never settles"
        THEN /\ localStorage' = c.ls
             /\ tasks' = OneMoreRound(tasks, i)
             /\ ret' = ret
        ELSE \E r \in {Unwind(c, userService, tasks[i].userId, tasks[i].depth, now, fail)} :
             /\ localStorage' = r.ls
             /\ tasks' = RemoveAt(tasks, i)
             /\ ret' = Outcome(tasks[i].op, tasks[i].arg,
                               IF r.err = "none" THEN [r EXCEPT !.val = tasks[i].val] ELSE r)
    /\ UNCHANGED <<service, factory, now, calls>>

InitSession ==
    /\ localStorage \in {EmptyStore, DirectoryStore, SignedInStore}
    /\ Constructed

SessionUserIds == {Str("user_1"), Str("user_2")}

NextSession ==
    \/ \E d \in UserDataInputs, e \in UserEntropy, f \in SessionFailures : CreateUserCall(d, e, f)
    \/ \E u \in SessionUserIds, p \in PatchInputs, e \in UserEntropy, f \in SessionFailures :
            UpdateUserCall(u, p, e, f)
    \/ \E u \in SessionUserIds, e \in UserEntropy, f \in SessionFailures : DeleteUserCall(u, e, f)
    \/ \E u \in SessionUserIds, e \in UserEntropy, f \in SessionFailures :
            SetCurrentUserCall(u, e, f)
    \/ \E e \in UserEntropy, f \in SessionFailures : ClearCurrentUserCall(e, f)
    \/ \E i \in 1..MaxTasks, e \in UserEntropy, f \in SessionFailures : SpinCycle(i, e, f)
    \/ Tick

SpecSession == InitSession /\ [][NextSession]_vars

ActiveProfiles(ls) == {i \in 1..Len(StoredUsers(ls)) : Truthy(StoredUsers(ls)[i].isActive)}

\* C21: in every state that a sequence of createUser, updateUser and
\* deleteUser calls leads to, no two active profiles of the users list have
\* names that are equal ignoring case.
C21_ActiveNamesDistinct ==
    \A i, j \in ActiveProfiles(localStorage) :
        i # j => toLowerCase(StoredUsers(localStorage)[i].name.chars) #
                 toLowerCase(StoredUsers(localStorage)[j].name.chars)

\* the ids of the stored profiles are pairwise distinct
StoredIdsDistinct ==
    \A i, j \in 1..Len(StoredUsers(localStorage)) :
        i # j => StoredUsers(localStorage)[i].id # StoredUsers(localStorage)[j].id

\* C21, the part that holds: as long as no two stored profiles share an id,
\* no two active profiles have names that are equal ignoring case.
C21_DistinctWhileIdsDistinct == StoredIdsDistinct => C21_ActiveNamesDistinct

\* createUser({ id: 'user_1', ... }) has stored a second profile under an id
\* already in the list
C21_TwinStored == ret.op = "createUser" /\ ret.err = "none" /\ ~StoredIdsDistinct

\* a call issued at this step has returned or thrown at this step
SessionCallStep(op) == calls' = calls + 1 /\ tasks' = tasks /\ ret'.op = op

DeleteUserDone(u) == SessionCallStep("deleteUser") /\ ret'.arg = u /\ ret'.err = "none"

ProfileKeptInactive(ls, u) ==
    \E i \in 1..Len(StoredUsers(ls)) :
        StoredUsers(ls)[i].id = u /\ StoredUsers(ls)[i].isActive = Bool(FALSE)

\* C22: a deleteUser(u) that returns leaves the list with as many profiles
\* as before, the profile u among them with isActive = false, and no
\* current-user pointer if the pointer designated u.
C22_DeleteIsSoft ==
    [][\A u \in SessionUserIds :
        DeleteUserDone(u) =>
            /\ Len(StoredUsers(localStorage')) = Len(StoredUsers(localStorage))
            /\ ProfileKeptInactive(localStorage', u)
            /\ StoredPointer(localStorage) = u => StoredPointer(localStorage') = Null]_vars

LastSession(ls) == StoredSessions(ls)[Len(StoredSessions(ls))]

\* deleteUser of the current user has returned: its logout is the last entry
\* of the session log
C22_Witness ==
    /\ ret.op = "deleteUser" /\ ret.err = "none"
    /\ ProfileKeptInactive(localStorage, ret.arg)
    /\ StoredPointer(localStorage) = Null
    /\ StoredSessions(localStorage) # <<>>
    /\ LastSession(localStorage).userId = ret.arg
    /\ LastSession(localStorage).type = Str("logout")

SetCurrentUserSettled(u) == ret.op = "setCurrentUser" /\ ret.arg = u

\* SpecDeleted: the calls of SpecSession on a directory in which deleteUser
\* has completed for Bob (user_2) in an earlier session
InitDeleted ==
    /\ localStorage \in {DirectoryStore, SignedInStore}
    /\ Constructed

SpecDeleted == InitDeleted /\ [][NextSession]_vars

\* C23: deleteUser(user_2) having completed, every setCurrentUser(user_2)
\* that settles has raised an error, whatever calls were made in between.
C23_DeletedNeverCurrent ==
    SetCurrentUserSettled(Str("user_2")) => ret.err # "none"

\* the profile getUserById(u) returns is one with isActive = false
StoredInactive(ls, u) ==
    /\ getUserById(ls, userService, u, [first |-> 0], now) # Null
    /\ ~Truthy(getUserById(ls, userService, u, [first |-> 0], now).o.isActive)

\* C23, the part that holds: a setCurrentUser(u) called while the profile
\* that getUserById(u) returns has isActive = false raises an error and
\* leaves the store, the pointer included, as it was.
C23_InactiveIsRejected ==
    [][\A u \in SessionUserIds :
        SessionCallStep("setCurrentUser") /\ ret'.arg = u /\ StoredInactive(localStorage, u)
            => ret'.err = "Cannot set inactive user as current user" /\ localStorage' = localStorage]_vars

\* setCurrentUser(u) has returned u for a profile stored as active again
C23_Reactivated ==
    /\ ret.op = "setCurrentUser" /\ ret.err = "none"
    /\ StoredPointer(localStorage) = ret.arg

ClearCurrentUserStep == SessionCallStep("clearCurrentUser")

OtherKeysUnchanged(before, after, keys) ==
    \A k \in (DOMAIN before \cup DOMAIN after) \ keys :
        k \in DOMAIN before /\ k \in DOMAIN after /\ after[k] = before[k]

\* C28 as stated: clearCurrentUser changes no stored key other than the
\* current-user pointer, which it clears.
C28_LogoutOnlyClearsPointer ==
    [][ClearCurrentUserStep =>
        /\ <<CURRENT_USER>> \notin DOMAIN localStorage'
        /\ OtherKeysUnchanged(localStorage, localStorage', {<<CURRENT_USER>>})]_vars

\* the session log after is the log before, or the entries of userId are
\* the last SessionCap of those before and the logout, the entries of the
\* other users being those before
LogoutLogged(before, after, userId, ms) ==
    \/ after = before
    \/ /\ SelectSeq(after, LAMBDA s : s.userId = userId) =
              LastOf(SelectSeq(before, LAMBDA s : s.userId = userId)
                         \o <<[userId |-> userId, type |-> Str("logout"), timestamp |-> Iso(ms)]>>,
                     SessionCap)
       /\ SelectSeq(after, LAMBDA s : s.userId # userId) =
              SelectSeq(before, LAMBDA s : s.userId # userId)

\* C28: clearCurrentUser clears the current-user pointer and writes the
\* logout of the user who was current to the session log; the users list
\* and every other stored key are unchanged.
C28_LogoutClearsPointerAndLogs ==
    [][ClearCurrentUserStep =>
        /\ <<CURRENT_USER>> \notin DOMAIN localStorage'
        /\ StoredUsers(localStorage') = StoredUsers(localStorage)
        /\ OtherKeysUnchanged(localStorage, localStorage', {<<CURRENT_USER>>, <<USER_SESSIONS>>})
        /\ LogoutLogged(StoredSessions(localStorage), StoredSessions(localStorage'),
                        StoredPointer(localStorage), now)]_vars

\* clearCurrentUser has returned, the logout being the last entry of the log
C28_Witness ==
    /\ ret.op = "clearCurrentUser" /\ ret.err = "none"
    /\ <<CURRENT_USER>> \notin DOMAIN localStorage
    /\ <<USERS_LIST>> \in DOMAIN localStorage
    /\ StoredSessions(localStorage) # <<>>
    /\ LastSession(localStorage).type = Str("logout")

---------------------------------------------------------------------------
(* SpecSessionFair: SpecSession with the event loop running what is        *)
(* pending: a chain of updateUser and setCurrentUser calls that can go one  *)
(* more round eventually does.                                              *)

\* whatever the value after the step is
Whatever(after, before) == after = before \/ after # before

\* A step of SpinCycle told by what it does to tasks and by the variables it
\* leaves alone, whatever it writes to the store and returns: the steps of
\* NextSession that satisfy SpinRound are those of SpinCycle, every step of
\* SpinCycle changes tasks, and SpinCycle is enabled whenever a chain is
\* pending, so that fairness for SpinRound is fairness for SpinCycle.
SpinRound ==
    \E i \in 1..Len(tasks) :
        /\ tasks[i].pc = "spin"
        /\ tasks' \in {OneMoreRound(tasks, i), RemoveAt(tasks, i)}
        /\ Whatever(localStorage', localStorage)
        /\ Whatever(ret', ret)
        /\ UNCHANGED <<service, factory, now, calls>>

SpecSessionFair == SpecSession /\ WF_vars(SpinRound)

CallPending == tasks # <<>>

\* C30: every setCurrentUser(u) or updateUser(u, patch) call for an existing
\* active user eventually returns or raises, also when u is the current
\* user already: a call that is pending eventually is not.
C30_EveryCallCompletes == CallPending ~> ~CallPending

---------------------------------------------------------------------------
(* SpecLog: logins and logouts on a session log that earlier sessions have  *)
(* filled up to the cap, or nearly.                                         *)

\* the entries of Ann an earlier session left, the last one of the given
\* type, one per millisecond up to the millisecond before this session
PastEntry(n, j, lastType) ==
    [userId |-> Str("user_1"),
     type |-> IF (n - j) % 2 = 0 THEN Str(lastType)
              ELSE IF lastType = "login" THEN Str("logout") ELSE Str("login"),
     timestamp |-> Iso(j - n - 1)]

\* the log: a login and a logout of Bob from before he was deleted, then n
\* entries of Ann
PastLog(n, lastType) ==
    <<[userId |-> Str("user_2"), type |-> Str("login"), timestamp |-> Iso(0 - n - 3)],
      [userId |-> Str("user_2"), type |-> Str("logout"), timestamp |-> Iso(0 - n - 2)]>>
    \o [j \in 1..n |-> PastEntry(n, j, lastType)]

WithLog(store, log) ==
    [k \in DOMAIN store \cup {<<USER_SESSIONS>>} |->
        IF k = <<USER_SESSIONS>> THEN JSONStringify(Arr(log)) ELSE store[k]]

PastLengths == {SessionCap - 2, SessionCap - 1, SessionCap}

LogFailures == {NoUserFailure, [NoUserFailure EXCEPT ![USER_SESSIONS] = "QuotaExceededError"]}

InitLog ==
    /\ localStorage \in {WithLog(DirectoryStore, PastLog(n, "logout")) : n \in PastLengths} \cup
                        {WithLog(SignedInStore, PastLog(n, "login")) : n \in PastLengths}
    /\ Constructed

NextLog ==
    \/ \E u \in SessionUserIds, e \in UserEntropy, f \in LogFailures : SetCurrentUserCall(u, e, f)
    \/ \E e \in UserEntropy, f \in LogFailures : ClearCurrentUserCall(e, f)
    \/ \E u \in SessionUserIds, e \in UserEntropy, f \in LogFailures : DeleteUserCall(u, e, f)
    \/ \E i \in 1..MaxTasks, e \in UserEntropy, f \in LogFailures : SpinCycle(i, e, f)
    \/ Tick

SpecLog == InitLog /\ [][NextLog]_vars

SessionsOf(ls, u) == SelectSeq(StoredSessions(ls), LAMBDA s : s.userId = u)

EachUserWithinCap == \A u \in SessionUserIds : Len(SessionsOf(localStorage, u)) <= SessionCap

\* after is what is left of before with n entries written after it: the
\* last SessionCap of them
MostRecentKept(before, after, n) ==
    /\ Len(after) = (IF Len(before) + n <= SessionCap THEN Len(before) + n ELSE SessionCap)
    /\ Len(after) >= n
    /\ SubSeq(after, 1, Len(after) - n) = LastOf(before, Len(after) - n)

\* the step has written the session log, for the user of its last entry
LogWritten ==
    /\ StoredSessions(localStorage') # StoredSessions(localStorage)
    /\ StoredSessions(localStorage') # <<>>

\* what a step that writes the log for u does to it
LogWriteKeeps(u) ==
    /\ Len(SessionsOf(localStorage', u)) <= SessionCap
    /\ \E n \in 1..(MaxDepth + 1) :
            MostRecentKept(SessionsOf(localStorage, u), SessionsOf(localStorage', u), n)
    /\ \A v \in SessionUserIds \ {u} : SessionsOf(localStorage', v) = SessionsOf(localStorage, v)

\* C29: a step that writes the session log leaves at most 100 entries of
\* the user it logs, the most recent ones, and every entry of the other
\* users; in every reachable state each user has at most 100 entries.
C29_LogCappedPerUser ==
    /\ []EachUserWithinCap
    /\ [][LogWritten => LogWriteKeeps(LastSession(localStorage').userId)]_vars

\* the log holds 100 entries of Ann, the oldest of the earlier session gone
\* and the newest written in this session, and the two entries of Bob
C29_Witness ==
    /\ Len(SessionsOf(localStorage, Str("user_1"))) = SessionCap
    /\ SessionsOf(localStorage, Str("user_1"))[1].timestamp = Iso(2 - SessionCap)
    /\ LastSession(localStorage).timestamp.iso >= 0
    /\ Len(SessionsOf(localStorage, Str("user_2"))) = 2

---------------------------------------------------------------------------
(* SpecSettings: a session on preferences and settings.  The values handed  *)
(* to savePreferences, saveSettings and importData include empty and null   *)
(* ones, partial objects, and a firstUse other than the stored one.         *)

GetPreferences ==
    Call("getPreferences", Undefined, Done(localStorage, getPreferences(localStorage, service)))

GetSettings(fail) ==
    Call("getSettings", Undefined, getSettings(localStorage, service, now, fail))

PreferenceValues ==
    {[unit |-> Str("kg")], [theme |-> Str("dark")], [unit |-> Str("")],
     [theme |-> Null], [theme |-> Str("blue")]}

\* a firstUse from before this session
EarlierFirstUse == Iso(0 - 5)

SettingValues == {[lastBackup |-> Iso(0)], [firstUse |-> EarlierFirstUse]}

NoWorkouts == [version |-> DATA_SCHEMA_VERSION, workouts |-> Arr(<<>>)]

\* some of the preferences and some of the settings, firstUse and
\* totalWorkouts among them
BundleOfParts ==
    Obj(NoWorkouts @@
        [preferences |-> Obj([theme |-> Str("dark")]),
         settings |-> Obj([lastBackup |-> Iso(0), firstUse |-> EarlierFirstUse,
                           totalWorkouts |-> Num(9)])])

\* a theme that DataValidators.preferences rejects
BundleOfInvalid ==
    Obj(NoWorkouts @@ [preferences |-> Obj([unit |-> Str("kg"), theme |-> Str("blue")])])

\* an empty unit, and one record
BundleOfEmptyUnit ==
    Obj(Bundle(<<LiftWithId(TimestampHexId(2), 1)>>) @@ [preferences |-> Obj([unit |-> Str("")])])

SettingsBundles == {BundleOfParts, BundleOfInvalid, BundleOfEmptyUnit}

NextSettings ==
    \/ Initialize(Null, UserA, TRUE, NoFailure)
    \/ GetPreferences
    \/ \E f \in Failures({APP_SETTINGS}, Quota) : GetSettings(f)
    \/ \E p \in PreferenceValues, f \in Failures({USER_PREFERENCES}, Quota) :
            SavePreferences(p, f)
    \/ \E s \in SettingValues, f \in Failures({APP_SETTINGS}, Quota) : SaveSettings(s, f)
    \/ \E d \in SettingsBundles, e \in Entropy,
          f \in Failures({USER_PREFERENCES, APP_SETTINGS}, Quota) : ImportData(d, e, f)
    \/ \E e \in Entropy, f \in Failures({APP_SETTINGS}, Quota) :
            SaveWorkout(LiftWithId(TimestampHexId(1), 1), e, f)
    \/ \E e \in Entropy, f \in Failures({WORKOUT_HISTORY}, Quota) :
            DeleteWorkout(TimestampHexId(1), e, f)
    \/ \E f \in Failures({APP_SETTINGS}, Quota) : ClearWorkoutHistory(f)
    \/ Tick

SpecSettings == Init /\ [][NextSettings]_vars

PreferenceUnits == {Str("lbs"), Str("kg")}
PreferenceThemes == {Str("light"), Str("dark")}

\* C24: whatever savePreferences and importData were called with, what
\* getPreferences returns has a unit that is lbs or kg and a theme that is
\* light or dark.
C24_PreferencesInRange ==
    Ready => /\ getPreferences(localStorage, service).o.unit \in PreferenceUnits
             /\ getPreferences(localStorage, service).o.theme \in PreferenceThemes

\* what does hold: a unit or theme that getPreferences returns is one of the
\* allowed ones unless it is an empty or null value
C24_NonEmptyInRange ==
    Ready => /\ Truthy(getPreferences(localStorage, service).o.unit)
                    => getPreferences(localStorage, service).o.unit \in PreferenceUnits
             /\ Truthy(getPreferences(localStorage, service).o.theme)
                    => getPreferences(localStorage, service).o.theme \in PreferenceThemes

\* getPreferences has returned an empty unit
C24_EmptyUnitReturned ==
    /\ ret.op = "getPreferences"
    /\ ret.val.o.unit = Str("")

\* importData has returned true in this step
ImportReturned ==
    /\ calls' = calls + 1
    /\ ret'.op = "importData"
    /\ ret'.err = "none"

\* the preferences or the settings a bundle carries, none being no keys
BundlePart(data, part) ==
    IF Truthy(Get(data.o, part)) THEN data.o[part].o ELSE EmptyObject

\* the settings as getSettings hands them out
CurrentSettings(ls, ms) ==
    IF StoredSettings(ls, UserA) = Null THEN createDefaultSettings(ms)
    ELSE Spread(DEFAULT_SETTINGS, StoredSettings(ls, UserA).o)

\* after is bundle merged over current, the excepted keys aside
MergedOver(current, bundle, after, excepted) ==
    \A k \in (DOMAIN current \cup DOMAIN bundle) \ excepted :
        /\ k \in DOMAIN after
        /\ after[k] = IF k \in DOMAIN bundle THEN bundle[k] ELSE current[k]

\* C25 as stated: after an importData whose writes all succeed, each key of
\* the preferences and of the settings has the bundle's value when the
\* bundle has the key and the value it had before when not, firstUse and
\* totalWorkouts excepted.
C25_ImportMergesOverStored ==
    [][ImportReturned /\ ret'.failed = NoFault =>
        /\ MergedOver(getPreferences(localStorage, service).o,
                      BundlePart(ret'.arg, "preferences"),
                      getPreferences(localStorage', service).o, {})
        /\ MergedOver(CurrentSettings(localStorage, now), BundlePart(ret'.arg, "settings"),
                      StoredSettings(localStorage', UserA).o,
                      {"firstUse", "totalWorkouts"})]_vars

\* importData stores the preferences of data: it carries some, they pass
\* DataValidators.preferences once merged over the defaults, and the write
\* has not failed
PreferencesImported(data, failed) ==
    /\ Truthy(Get(data.o, "preferences"))
    /\ ValidatePreferences(Spread(DEFAULT_PREFERENCES, data.o.preferences.o)) = "ok"
    /\ failed.key # USER_PREFERENCES

\* C25: importData merges the bundle's settings over the stored settings
\* (firstUse and totalWorkouts excepted) and the bundle's preferences over
\* the default preferences; preferences that are invalid or whose write
\* fails, and settings whose write fails, leave what was stored.
C25_ImportMerges ==
    [][ImportReturned =>
        /\ StoredPreferences(localStorage', UserA) =
              IF PreferencesImported(ret'.arg, ret'.failed)
              THEN Obj(JSONRoundTrip(Spread(DEFAULT_PREFERENCES, ret'.arg.o.preferences.o)))
              ELSE StoredPreferences(localStorage, UserA)
        /\ IF ret'.failed.key = APP_SETTINGS
           THEN StoredSettings(localStorage', UserA) = StoredSettings(localStorage, UserA)
           ELSE MergedOver(CurrentSettings(localStorage, now), BundlePart(ret'.arg, "settings"),
                           StoredSettings(localStorage', UserA).o,
                           {"firstUse", "totalWorkouts"})]_vars

\* importData of a bundle with a theme and some settings has returned on a
\* store whose unit was kg: the theme and the lastBackup are the bundle's,
\* the unit is the default one
C25_Witness ==
    /\ ret.op = "importData" /\ ret.err = "none" /\ ret.failed = NoFault
    /\ ret.arg = BundleOfParts
    /\ StoredPreferences(localStorage, UserA).o.theme = Str("dark")
    /\ StoredPreferences(localStorage, UserA).o.unit = Str("lbs")
    /\ StoredSettings(localStorage, UserA).o.lastBackup = Iso(0)
    /\ calls = MaxCalls

StoredFirstUse(ls) ==
    IF StoredSettings(ls, UserA) = Null THEN Undefined
    ELSE Get(StoredSettings(ls, UserA).o, "firstUse")

\* C26: once the stored settings have a firstUse, no getSettings,
\* saveSettings, saveWorkout, deleteWorkout, clearWorkoutHistory or
\* importData call changes it, whatever firstUse its argument carries and
\* whatever the clock says.
C26_FirstUseSticky ==
    [][Truthy(StoredFirstUse(localStorage)) =>
        StoredFirstUse(localStorage') = StoredFirstUse(localStorage)]_vars

\* saveSettings has returned from a call with an earlier firstUse, on a later
\* day than the one the stored firstUse was set on: the stored one is the
\* first one still
C26_Witness ==
    /\ ret.op = "saveSettings" /\ ret.err = "none"
    /\ Get(ret.arg.o, "firstUse") = EarlierFirstUse
    /\ StoredFirstUse(localStorage) = Iso(0)
    /\ ret.val.o.firstUse = Iso(0)
    /\ now = 1

---------------------------------------------------------------------------
(* SpecTwice: DataTransformers.normalizeWorkout applied to a record and     *)
(* then to its own result, with the same existingIds, the clock and the     *)
(* generator being read anew by the second call.                            *)

\* the records normalized: ids of every shape, a number as id, fields absent,
\* empty or of another type
TwiceInputs ==
    {JSONRoundTrip(o) : o \in
        [id : {Undefined, TimestampHexId(1), NumericId(7), WidenedId(2), UuidId(2), Num(5)},
         date : {Undefined, DateStr(0)},
         targetWeight : {Undefined, Str("100"), Str("abc"), Num(0 - 5)},
         unit : {Undefined, Str("")},
         completed : {Undefined, Str("yes")}]}

TakenIdsInputs == {{}, {TimestampHexId(1)}, {TimestampHexId(1), TimestampHexId(2)}}

\* the draws of a later call: the widened candidate and the UUID are the
\* earlier ones again or new ones
LaterEntropy ==
    [first : 0..1, step : {0, 1}, span : {IdSpan}, wide : {1, 2}, uuid : {1, 2}]

InitTwice ==
    /\ localStorage = EmptyStore
    /\ service = NoService
    /\ factory = [currentService |-> "null", serviceType |-> Null, currentUserId |-> Null]
    /\ now = 0
    /\ \E raw \in TwiceInputs :
          ret = [op |-> "input", arg |-> Obj(raw), err |-> "none", val |-> Undefined,
                 failed |-> NoFault]
    /\ tasks = <<>>
    /\ calls = 0

\* normalize(r, existingIds)
Normalize(existingIds, e) ==
    /\ ret.op = "input"
    /\ ret' = [op |-> "normalize", arg |-> Arr(<<ret.arg, IdSet(existingIds)>>), err |-> "none",
               val |-> Obj(normalizeWorkout(ret.arg.o, existingIds, e, now)),
               failed |-> NoFault]
    /\ UNCHANGED <<localStorage, service, factory, now, tasks, calls>>

\* normalize(n, existingIds), n being what the first call returned
NormalizeAgain(e) ==
    /\ ret.op = "normalize"
    /\ ret' = [op |-> "normalize(normalize())", arg |-> Arr(<<ret.val, ret.arg.a[2]>>),
               err |-> "none",
               val |-> Obj(normalizeWorkout(ret.val.o, ret.arg.a[2].s, e, now)),
               failed |-> NoFault]
    /\ UNCHANGED <<localStorage, service, factory, now, tasks, calls>>

NextTwice ==
    \/ \E x \in TakenIdsInputs, e \in GenerateEntropy : Normalize(x, e)
    \/ \E e \in LaterEntropy : NormalizeAgain(e)
    \/ Tick

SpecTwice == InitTwice /\ [][NextTwice]_vars

\* the two records agree in every field but updatedAt
SameButUpdatedAt(a, b) ==
    /\ DOMAIN a = DOMAIN b
    /\ \A f \in DOMAIN a \ {"updatedAt"} : a[f] = b[f]

NormalizedTwice == ret.op = "normalize(normalize())"

\* C27: normalize(normalize(r)) equals normalize(r) in every field, the id
\* included, except updatedAt.
C27_NormalizeIdempotent ==
    NormalizedTwice => SameButUpdatedAt(ret.val.o, ret.arg.a[1].o)

\* what does hold: the second normalization changes nothing but updatedAt
\* unless the first one returned an id isValidWorkoutId rejects, and then
\* nothing but updatedAt and the id
C27_IdempotentButWidenedId ==
    NormalizedTwice =>
        IF isValidWorkoutId(ret.arg.a[1].o.id)
        THEN SameButUpdatedAt(ret.val.o, ret.arg.a[1].o)
        ELSE /\ IdShape(ret.arg.a[1].o.id) = "timestamp_us_hex"
             /\ SameButUpdatedAt(With(ret.val.o, "id", ret.arg.a[1].o.id), ret.arg.a[1].o)

\* a record without id was normalized twice on the day after and kept the id
\* and the date the first normalization gave it
C27_KeptGeneratedId ==
    /\ NormalizedTwice
    /\ ret.val.o.id = ret.arg.a[1].o.id
    /\ ret.val.o.date = DateStr(0)
    /\ ret.val.o.updatedAt = Iso(1)
    /\ ret.arg.a[1].o.updatedAt = Iso(0)

---------------------------------------------------------------------------
(* SpecRace: saveWorkout calls on the scope of UserA, each awaited before   *)
(* the next is issued or issued while another one is still pending.         *)

MaxRacing == 2          \* saveWorkout calls pending at the same time

RaceInputs == {LiftWithId(TimestampHexId(1), 1), LiftWithId(TimestampHexId(2), 2), Lift(3)}

NextRace ==
    \/ Initialize(Null, UserA, TRUE, NoFailure)
    \/ \E w \in RaceInputs, e \in Entropy,
          f \in Failures({WORKOUT_HISTORY, APP_SETTINGS}, Quota) : SaveWorkout(w, e, f)
    \/ \E w \in RaceInputs, e \in Entropy : SaveWorkoutIssue(w, e, MaxRacing)
    \/ \E i \in 1..MaxRacing : SaveWorkoutWrite(i)
    \/ \E i \in 1..MaxRacing : SaveWorkoutSettings(i)
    \/ Tick

SpecRace == Init /\ [][NextRace]_vars

StoredIds(ls) == IdsOf(StoredHistory(ls, UserA).a)

\* a saveWorkout issued with nothing pending has run to its return in this step
AwaitedSaveReturned ==
    /\ tasks = <<>> /\ tasks' = <<>>
    /\ calls' = calls + 1
    /\ ret'.op = "saveWorkout" /\ ret'.err = "none"

\* the only pending saveWorkout has written in this step, nothing having
\* written the history since the call read it
LoneSaveWritten ==
    /\ Len(tasks) = 1 /\ tasks[1].pc = "write"
    /\ Len(tasks') = 1 /\ tasks'[1].pc = "settings"
    /\ IdsOf(tasks[1].workouts) = StoredIds(localStorage)

RecordsKept == StoredIds(localStorage) \subseteq StoredIds(localStorage')

\* C31: a saveWorkout that is awaited before the next call is issued leaves
\* its record in the stored history together with every record that was
\* stored before.
C31_AwaitedSavesKept ==
    [][/\ AwaitedSaveReturned => RecordsKept /\ ret'.val \in StoredIds(localStorage')
       /\ LoneSaveWritten =>
            /\ RecordsKept
            /\ StoredIds(localStorage') # StoredIds(localStorage)
                   \/ Get(tasks[1].workout, "id") \in StoredIds(localStorage')]_vars

\* C31, the interleaving: two saveWorkout calls for distinct new records
\* have both returned without an error, and the history holds the second
\* record only
C31_OneOfTwoStored ==
    /\ tasks = <<>>
    /\ calls = MaxRacing
    /\ ret.op = "saveWorkout" /\ ret.err = "none"
    /\ ret.arg = Obj(LiftWithId(TimestampHexId(1), 1))
    /\ StoredIds(localStorage) = {TimestampHexId(2)}

---------------------------------------------------------------------------
(* Calls of Spec that raise an error: what they leave in the store.         *)

StoredTotalWorkouts(ls) ==
    IF StoredSettings(ls, UserA) = Null THEN Undefined
    ELSE Get(StoredSettings(ls, UserA).o, "totalWorkouts")

\* the call op, issued with nothing pending, has raised an error in this step
Raised(op) ==
    /\ calls' = calls + 1
    /\ tasks' = tasks
    /\ ret'.op = op
    /\ ret'.err # "none"

HistoryAndTotalKept ==
    /\ StoredHistory(localStorage', UserA) = StoredHistory(localStorage, UserA)
    /\ StoredTotalWorkouts(localStorage') = StoredTotalWorkouts(localStorage)

\* C32: a saveWorkout that raises an error, whether validation has failed
\* or the write of the history or of the settings, leaves the stored
\* history and the stored totalWorkouts exactly as they were.
C32_RaisedSaveChangesNothing ==
    [][Raised("saveWorkout") => HistoryAndTotalKept]_vars

\* what does hold: they are as they were unless it is the write of the
\* settings that has failed
C32_KeptUnlessSettingsWriteFailed ==
    [][Raised("saveWorkout") /\ ret'.failed.key # APP_SETTINGS => HistoryAndTotalKept]_vars

\* the call op has returned or raised in this step, issued with nothing pending
Settled(op) ==
    /\ calls' = calls + 1
    /\ tasks' = tasks
    /\ ret'.op = op

\* the id handed to updateWorkout or deleteWorkout
IdArgument == IF ret'.op = "updateWorkout" THEN ret'.arg.o.id ELSE ret'.arg

\* no stored record has the id the call was given
IdNotStored == IdArgument \notin StoredIds(localStorage)

\* the record saveWorkout(workout) would store fails DataValidators.workout
SaveFailsValidation(ls, workout, ms) ==
    \E e \in Entropy : ValidateWorkout(normalizeWorkout(workout, StoredIds(ls), e, ms)) # "ok"

\* the stored record with the given id, patched, fails DataValidators.workout
UpdateFailsValidation(ls, workoutId, updates, ms) ==
    \E e \in Entropy :
        \E i \in 1..Len(getWorkoutHistory(ls, service, e, ms).val.a) :
            /\ getWorkoutHistory(ls, service, e, ms).val.a[i].id = workoutId
            /\ ValidateWorkout(normalizeWorkout(
                   With(Spread(getWorkoutHistory(ls, service, e, ms).val.a[i], updates),
                        "updatedAt", Iso(ms)), {}, e, ms)) # "ok"

RaisedWithoutEffect == ret'.err # "none" /\ localStorage' = localStorage

\* C33: updateWorkout and deleteWorkout with an id that no stored record
\* has, and saveWorkout and updateWorkout whose record fails validation,
\* raise an error and leave the whole store, history and settings included,
\* as it was.
C33_FailingInputHasNoEffect ==
    [][/\ Settled("updateWorkout") /\ IdNotStored
            => RaisedWithoutEffect /\ ret'.err = "Workout not found"
       /\ Settled("deleteWorkout") /\ IdNotStored
            => RaisedWithoutEffect /\ ret'.err = "Workout not found"
       /\ Settled("saveWorkout") /\ SaveFailsValidation(localStorage, ret'.arg.o, now)
            => RaisedWithoutEffect /\ ret'.failed = NoFault
       /\ Settled("updateWorkout")
            /\ UpdateFailsValidation(localStorage, ret'.arg.o.id, ret'.arg.o.updates.o, now)
            => RaisedWithoutEffect /\ ret'.failed = NoFault]_vars

\* updateWorkout of a stored record with a negative target weight has raised
\* the validation error, the record being stored as before
C33_Witness ==
    /\ ret.op = "updateWorkout"
    /\ ret.arg.o.updates = Obj([targetWeight |-> Num(0 - 5)])
    /\ ret.arg.o.id \in StoredIds(localStorage)
    /\ ret.err \notin {"none", "Workout not found"}
    /\ ret.failed = NoFault
    /\ \A i \in 1..Len(StoredHistory(localStorage, UserA).a) :
            StoredHistory(localStorage, UserA).a[i].targetWeight = Num(100)

---------------------------------------------------------------------------
(* migrateLegacyData on a scope that holds data already. *)

MigrateLegacyDataStep == calls' = calls + 1 /\ ret'.op = "migrateLegacyData"

ScopedPresent(ls, key) == ScopedKey(UserA, key) \in DOMAIN ls

StoredRecords(ls) ==
    {StoredHistory(ls, UserA).a[i] : i \in 1..Len(StoredHistory(ls, UserA).a)}

\* C34: what is stored under the keys of the user before
\* migrateLegacyData(userId) is still there after it: every workout record,
\* the preferences and the settings.
C34_MigrationKeepsScopedData ==
    [][MigrateLegacyDataStep =>
        /\ StoredRecords(localStorage) \subseteq StoredRecords(localStorage')
        /\ ScopedPresent(localStorage, USER_PREFERENCES)
                => ScopedPresent(localStorage', USER_PREFERENCES)
        /\ ScopedPresent(localStorage, APP_SETTINGS)
                => ScopedPresent(localStorage', APP_SETTINGS)]_vars

\* what does hold: a key of the user is left as it was unless the store
\* holds a value under the unscoped key of the same name
C34_KeptWhereNoLegacyKey ==
    [][MigrateLegacyDataStep =>
        \A i \in 1..Len(LegacyKeys) :
            ~HasItem(localStorage, LegacyKeys[i]) =>
                /\ ScopedPresent(localStorage', LegacyKeys[i])
                        <=> ScopedPresent(localStorage, LegacyKeys[i])
                /\ ScopedPresent(localStorage, LegacyKeys[i]) =>
                        localStorage'[ScopedKey(UserA, LegacyKeys[i])] =
                            localStorage[ScopedKey(UserA, LegacyKeys[i])]]_vars

---------------------------------------------------------------------------
(* SpecStable: reads of a stored history that holds records from before ids *)
(* were texts, each followed by another read or by an updateWorkout or      *)
(* deleteWorkout of an id the read has returned.  Date.now() and            *)
(* Math.random() differ from one call to the next.                          *)

StableEntries ==
    {Stored(EarlierId(1), 1),
     LegacyStored(1700, 1),
     JSONRoundTrip(LiftWithId(NumericId(7), 2))}

StableLists == UNION {[1..n -> StableEntries] : n \in 1..MaxRaw}

StableEntropy ==
    {[first |-> f, step |-> 1, span |-> IdSpan, wide |-> 1, uuid |-> 1] : f \in {0, 1}}

InitStable ==
    /\ \E raw \in StableLists : localStorage = (ScopedKey(UserA, WORKOUT_HISTORY) :> Arr(raw))
    /\ Constructed

\* the ids of the records the last call has returned, when it was a read
ReadIds ==
    IF ret.op = "getWorkoutHistory" /\ ret.err = "none" THEN IdsOf(ret.val.a) ELSE {}

NextStable ==
    \/ Initialize(Null, UserA, TRUE, NoFailure)
    \/ \E e \in StableEntropy : GetWorkoutHistory(e)
    \/ \E id \in ReadIds, e \in StableEntropy :
            UpdateWorkout(id, [notes |-> Str("paused")], e, NoFailure)
    \/ \E id \in ReadIds, e \in StableEntropy : DeleteWorkout(id, e, NoFailure)
    \/ Tick

SpecStable == InitStable /\ [][NextStable]_vars

\* the ids of a list, in its order
IdSeq(workouts) == [i \in 1..Len(workouts) |-> workouts[i].id]

\* a call has returned in this step, the call before it having been a read
\* that returned
CallAfterRead ==
    /\ ret.op = "getWorkoutHistory" /\ ret.err = "none"
    /\ calls' = calls + 1

\* C35: a getWorkoutHistory that follows a getWorkoutHistory returns the
\* same id for every record, and an updateWorkout or deleteWorkout of an id
\* the read before it has returned finds the record.
C35_ReadIdsStable ==
    [][CallAfterRead =>
        /\ ret'.op = "getWorkoutHistory" => IdSeq(ret'.val.a) = IdSeq(ret.val.a)
        /\ ret'.op \in {"updateWorkout", "deleteWorkout"} => ret'.err # "Workout not found"]_vars

\* the ids of the stored records that are kept as they are: texts of the
\* timestamp_hex or the UUID shape
KeptIds(ls) ==
    {id \in TruthyIds(StoredHistory(ls, UserA).a) : isValidWorkoutId(id) /\ ~IsNumericText(id)}

\* what holds: a record stored with a timestamp_hex or UUID id is returned
\* with that id by every read, and an updateWorkout or deleteWorkout of that
\* id finds it
C35_TextIdsStable ==
    [][CallAfterRead =>
        /\ KeptIds(localStorage) \subseteq ReadIds
        /\ ret'.op = "getWorkoutHistory" => KeptIds(localStorage) \subseteq IdsOf(ret'.val.a)
        /\ /\ ret'.op = "updateWorkout"
           /\ ret'.arg.o.id \in KeptIds(localStorage)
           => ret'.err # "Workout not found"
        /\ /\ ret'.op = "deleteWorkout"
           /\ ret'.arg \in KeptIds(localStorage)
           => ret'.err # "Workout not found"]_vars

\* a read has returned an id for a record stored with a number as its id,
\* and the updateWorkout of that id has raised not found
C35_ReadIdNotFound ==
    /\ ret.op = "updateWorkout" /\ ret.err = "Workout not found"
    /\ StoredHistory(localStorage, UserA).a = <<LegacyStored(1700, 1)>>

\* the id a record that carries id gets when it is normalized with the draws
\* e, id being among the ids in use
NormalizedId(id, existingIds, e) ==
    normalizeWorkout(LiftWithId(id, 1), existingIds \cup {id}, e, 0).id

\* C36: whatever generateWorkoutId returns is accepted by isValidWorkoutId,
\* and a record that carries it keeps it when it is normalized.
C36_GeneratedIdIsValid ==
    ret.op = "generateWorkoutId" =>
        /\ isValidWorkoutId(ret.val)
        /\ \A e \in GenerateEntropy : NormalizedId(ret.val, ret.arg.s, e) = ret.val

\* what holds: an id returned in the plain timestamp_hex shape or in the
\* UUID shape is accepted and kept
C36_PlainAndUuidValid ==
    ret.op = "generateWorkoutId" /\ IdShape(ret.val) \in {"timestamp_hex", "uuid"} =>
        /\ isValidWorkoutId(ret.val)
        /\ \A e \in GenerateEntropy : NormalizedId(ret.val, ret.arg.s, e) = ret.val

\* generateWorkoutId has returned a widened id
C36_WidenedReturned ==
    ret.op = "generateWorkoutId" /\ IdShape(ret.val) = "timestamp_us_hex"

\* saveWorkout, updateWorkout or deleteWorkout has returned in this step
\* without raising
RecordCallReturned ==
    /\ calls' = calls + 1
    /\ tasks' = tasks
    /\ ret'.op \in {"saveWorkout", "updateWorkout", "deleteWorkout"}
    /\ ret'.err = "none"

\* the id of the record the call was applied to
TargetId == IF ret'.op = "saveWorkout" THEN ret'.val ELSE IdArgument

\* the records stored before the step that the call was not applied to
OtherRecords ==
    {w \in StoredRecords(localStorage) : w.id # TargetId}

\* C37: saveWorkout, updateWorkout or deleteWorkout of one record leaves
\* every other stored record as it was in every field, updatedAt included.
C37_OtherRecordsUnchanged ==
    [][RecordCallReturned => OtherRecords \subseteq StoredRecords(localStorage')]_vars

\* what holds: every other stored record is stored afterwards with every
\* field but updatedAt as it was
C37_OtherRecordsKeptButUpdatedAt ==
    [][RecordCallReturned =>
        \A w \in OtherRecords :
            \E v \in StoredRecords(localStorage') : SameButUpdatedAt(w, v)]_vars

\* a saveWorkout of a second record has returned at a later time than the
\* first was stored, and the first record carries the later time
C37_OtherRestamped ==
    /\ ret.op = "saveWorkout" /\ ret.err = "none"
    /\ ret.val = TimestampHexId(2)
    /\ \E w \in StoredRecords(localStorage) :
          w.id = TimestampHexId(1) /\ w.createdAt = Iso(0) /\ w.updatedAt = Iso(1)

\* the profile the pointer of ls designates: the first of the list with
\* that id, as getCurrentUser finds it, or Null
DesignatedProfile(ls) == getCurrentUser(ls, userService, [first |-> 0], 0)

PointerDesignatesActive(ls) ==
    \/ StoredPointer(ls) = Null
    \/ /\ DesignatedProfile(ls) # Null
       /\ DesignatedProfile(ls).o.isActive = Bool(TRUE)

---------------------------------------------------------------------------
(* SpecAwaited: the calls of the user directory and of the session pointer, *)
(* each issued only when every call before it has settled.  A call caught   *)
(* in the chain of updateUser and setCurrentUser stays pending, and nothing *)
(* is issued after it unless the chain ends.                                *)

AwaitedPatches == {[name |-> Name(Cat)], [isActive |-> Bool(FALSE)]}

InitAwaited ==
    /\ localStorage \in {DirectoryStore, SignedInStore}
    /\ Constructed

AllSettled == tasks = <<>>

NextAwaited ==
    \/ AllSettled /\ \E d \in UserDataInputs, e \in UserEntropy, f \in SessionFailures :
                        CreateUserCall(d, e, f)
    \/ AllSettled /\ \E u \in SessionUserIds, p \in AwaitedPatches, e \in UserEntropy,
                        f \in SessionFailures : UpdateUserCall(u, p, e, f)
    \/ AllSettled /\ \E u \in SessionUserIds, e \in UserEntropy, f \in SessionFailures :
                        DeleteUserCall(u, e, f)
    \/ AllSettled /\ \E u \in SessionUserIds, e \in UserEntropy, f \in SessionFailures :
                        SetCurrentUserCall(u, e, f)
    \/ AllSettled /\ \E e \in UserEntropy, f \in SessionFailures : ClearCurrentUserCall(e, f)
    \/ \E i \in 1..MaxTasks, e \in UserEntropy, f \in SessionFailures : SpinCycle(i, e, f)
    \/ Tick

SpecAwaited == InitAwaited /\ [][NextAwaited]_vars

\* C38: after a sequence of createUser, updateUser, deleteUser,
\* setCurrentUser and clearCurrentUser calls, each settled before the next
\* was issued, the pointer is absent or designates an active profile.
C38_AwaitedPointerDesignatesActive ==
    AllSettled => PointerDesignatesActive(localStorage)

\* the patch of the updateUser that settles in this step sets isActive
DeactivatingUpdate ==
    /\ ret'.op = "updateUser"
    /\ "isActive" \in DOMAIN ret'.arg.o.updates.o

\* what holds: a call that settles keeps the pointer absent or on an active
\* profile, unless it is an updateUser whose patch sets isActive
C38_KeptUnlessPatched ==
    [][/\ AllSettled'
       /\ calls' = calls + 1 \/ tasks' # tasks
       /\ PointerDesignatesActive(localStorage)
       /\ ~DeactivatingUpdate
       => PointerDesignatesActive(localStorage')]_vars

\* updateUser of the current user with isActive: false has thrown, the
\* profile is stored inactive and the pointer still designates it
C38_CurrentUserInactive ==
    /\ AllSettled
    /\ ret.op = "updateUser"
    /\ ret.err = "Cannot set inactive user as current user"
    /\ StoredPointer(localStorage) = Str("user_1")
    /\ DesignatedProfile(localStorage).o.isActive = Bool(FALSE)

---------------------------------------------------------------------------
(* SpecAttempts: generateWorkoutId candidate by candidate.  The one entry   *)
(* of tasks is the call: pc is the candidate it examines next ("plain" for  *)
(* generateUniqueId() at the top of the loop body, "widened" for the        *)
(* candidate built under `if (attempts > 10)`), attempts is the local       *)
(* variable.  Every candidate is whatever Date.now(), performance.now()     *)
(* and Math.random() make it.                                               *)

PlainCandidates == {TimestampHexId(1), TimestampHexId(2)}
WidenedCandidates == {WidenedId(1), WidenedId(2)}

InitAttempts ==
    /\ localStorage = EmptyStore
    /\ service = NoService
    /\ factory = [currentService |-> "null", serviceType |-> Null, currentUserId |-> Null]
    /\ now = 0
    /\ \E existingIds \in SUBSET (PlainCandidates \cup WidenedCandidates) :
          ret = [op |-> "input", arg |-> IdSet(existingIds), err |-> "none", val |-> Undefined,
                 failed |-> NoFault]
    /\ tasks = <<[pc |-> "plain", attempts |-> 0]>>
    /\ calls = 0

\* return id
ReturnId(id) ==
    /\ tasks' = <<[tasks[1] EXCEPT !.pc = "done"]>>
    /\ ret' = [ret EXCEPT !.op = "generateWorkoutId", !.val = id]

\* Variant of TryPlain that never goes on to the widened candidate; C39 must
\* fail on it.
TryPlainOnly(id) ==
    /\ tasks[1].pc = "plain"
    /\ tasks[1].attempts < maxAttempts
    /\ IF id \notin ret.arg.s THEN ReturnId(id)
       ELSE /\ tasks' = <<[tasks[1] EXCEPT !.attempts = @ + 1]>>
            /\ ret' = ret
    /\ UNCHANGED <<localStorage, service, factory, now, calls>>

\* while (attempts < maxAttempts) { const id = generateUniqueId();
\* if (!existingIds.has(id)) return id; attempts++; if (attempts > 10) ...
TryPlain(id) ==
    /\ tasks[1].pc = "plain"
    /\ tasks[1].attempts < maxAttempts
    /\ IF id \notin ret.arg.s THEN ReturnId(id)
       ELSE /\ tasks' = <<[pc |-> IF tasks[1].attempts + 1 > widenAfter THEN "widened"
                                  ELSE "plain",
                           attempts |-> tasks[1].attempts + 1]>>
            /\ ret' = ret
    /\ UNCHANGED <<localStorage, service, factory, now, calls>>

\* const uniqueId = ...; if (!existingIds.has(uniqueId)) return uniqueId; }
TryWidened(uniqueId) ==
    /\ tasks[1].pc = "widened"
    /\ IF uniqueId \notin ret.arg.s THEN ReturnId(uniqueId)
       ELSE /\ tasks' = <<[tasks[1] EXCEPT !.pc = "plain"]>>
            /\ ret' = ret
    /\ UNCHANGED <<localStorage, service, factory, now, calls>>

\* the loop is left: return generateUUID()
ReturnUUID(uuid) ==
    /\ tasks[1].pc = "plain"
    /\ ~(tasks[1].attempts < maxAttempts)
    /\ ReturnId(uuid)
    /\ UNCHANGED <<localStorage, service, factory, now, calls>>

NextAttempts ==
    \/ \E id \in PlainCandidates : TryPlain(id)
    \/ \E id \in WidenedCandidates : TryWidened(id)
    \/ ReturnUUID(UuidId(1))

SpecAttempts == InitAttempts /\ [][NextAttempts]_vars

\* the event loop is not involved: the call runs on until it returns
SpecAttemptsFair == SpecAttempts /\ WF_vars(NextAttempts)

\* an attempt has failed on a collision in this step
AttemptFailed == tasks'[1].attempts = tasks[1].attempts + 1

Returned == tasks[1].pc = "done"

\* the generator leaves the loop and returns a UUID exactly when 100
\* attempts have failed, and no more than 100 attempts fail
FallbackAfterMaxAttempts ==
    /\ Returned' /\ ~Returned =>
          (IdShape(ret'.val) = "uuid" <=> tasks[1].pc = "plain" /\ tasks[1].attempts = maxAttempts)
    /\ tasks'[1].attempts <= maxAttempts

C40_ExactMatchIffMultiple ==
    Calculated /\ ret.arg.targetWeight >= ret.arg.barbellWeight =>
        /\ ret.val.actualWeight <= ret.arg.targetWeight
        /\ ret.arg.targetWeight - ret.val.actualWeight < SmallestPlate(ret.arg.unit)
        /\ ret.val.exactMatch <=>
              (ret.arg.targetWeight - ret.arg.barbellWeight) % SmallestPlate(ret.arg.unit) = 0

\* what holds: the bounds on actualWeight; exactMatch is true when
\* targetWeight - barbellWeight is a whole multiple of the smallest plate,
\* and false when it is two hundredths or more above one
C40_ExactMatchButOneHundredthAbove ==
    Calculated /\ ret.arg.targetWeight >= ret.arg.barbellWeight =>
        /\ ret.val.actualWeight <= ret.arg.targetWeight
        /\ ret.arg.targetWeight - ret.val.actualWeight < SmallestPlate(ret.arg.unit)
        /\ (ret.arg.targetWeight - ret.arg.barbellWeight) % SmallestPlate(ret.arg.unit) = 0
              => ret.val.exactMatch
        /\ (ret.arg.targetWeight - ret.arg.barbellWeight) % SmallestPlate(ret.arg.unit) > 10
              => ~ret.val.exactMatch

\* 45.01 lbs on the 45 lbs bar: no plate, and exactMatch is true
C40_HundredthAboveIsExact ==
    /\ Calculated
    /\ ret.arg = [targetWeight |-> 45010, unit |-> "lbs", barbellWeight |-> 45000]
    /\ ret.val.actualWeight = 45000
    /\ ret.val.exactMatch

====
